---- MODULE Spec2Model ----
(***************************************************************************)
(* A model of cpp-test-runner: the execution engine (run_all), the         *)
(* directory scanner (find_test_executables) and the executable            *)
(* classifier (parse_test_executable over the elf_parser reader).          *)
(*                                                                         *)
(* Three specifications share the module:                                  *)
(*   Spec          run_all over a list of tests, one worker per test       *)
(*   ScanSpec      find_test_executables: walker workers, the bounded      *)
(*                 channel and the collecting thread                       *)
(*   ClassifySpec  parse_test_executable / parse_gtest_executable applied  *)
(*                 to one candidate file                                   *)
(***************************************************************************)
EXTENDS Integers, Sequences, FiniteSets, Bags, TLC

(***************************************************************************)
(* Bounds of the model.                                                    *)
(***************************************************************************)
MaxTests == 3
MaxSections == 2
MaxSymbols == 2
MaxStrLen == 3
MaxEntries == 2
MaxJobs == 2
MaxPaths == 3
MaxDepth == 2
MaxSuites == 2
MaxCases == 2
MaxArgs == 2
MaxExecutables == 2
MaxLineLen == 4

(***************************************************************************)
(* Program constants.                                                      *)
(***************************************************************************)
DESIRED_LINE_LEN == 120
ChannelCapacity == 100

VARIABLES
    \* ---- classification of one candidate file ----
    file,               \* the candidate
    is_gtest_enabled,   \* the two enable flags of parse_test_executable
    is_catch2_enabled,
    result,             \* what parse_test_executable returned
    gtest_result,       \* what parse_gtest_executable returned
    \* ---- find_test_executables (crates/cpp_test_runner/src/executable_finder.rs) ----
    entries,            \* what the walker yields for the tree, in its order
    next_entry,         \* the next entry a walker worker will take
    worker,             \* the walker workers: position and the executable to send
    channel,            \* the messages sent on tx and not yet received on rx
    sent,               \* every message ever sent, in order (history)
    tx_dropped,         \* the original sender has been dropped
    scan_tests,         \* the Vec the collecting thread pushes to
    collector,          \* the collecting thread: receiving or done
    scanState,          \* find_test_executables itself
    \* ---- run_all (crates/gtest_runner/src/test_runner.rs) ----
    tests,              \* the slice handed to run_all: name length and child outcome
    tpc,                \* position of each test's closure
    test_passed,        \* the closure's local test_passed
    test_number,        \* the Mutex<u32>: value, holder and poison flag
    num_tests_passed,   \* the AtomicUsize
    printed,            \* what println! has written for the tests, in order
    terminal,           \* the standard output: status lines and blocks of child output
    runState,           \* run_all itself: running, returned or panicked
    summary,            \* the summary line, once printed
    \* ---- validate_executables (crates/cpp_test_runner/src/executable_finder.rs) ----
    executables,        \* the supplied paths: what kind of file each one is
    validated,          \* what the map closure made of each path, once it ran
    first_error,        \* the error the collect into Result keeps: the first in time
    validate_result,    \* what validate_executables returned
    \* ---- find_file (crates/cpp_test_runner/src/test_parser.rs) ----
    fs,                 \* what lies at <root>/a/../a/f, by the number of a's
    cwd,                \* the process's current directory
    search_start,       \* find_file's arguments
    to_find,
    current_dir,        \* the loop's current_dir
    tried,              \* the directories the loop has looked in (history)
    find_result,        \* what find_file returned
    \* ---- get_tests_from_executables (crates/cpp_test_runner/src/test_parser.rs) ----
    enum_executables,   \* the executables: path, type and what the child does
    exectuables_only,   \* the arguments of get_tests_from_executables
    gtest_extra_args,
    catch2_extra_args,
    filter,
    enum_next,          \* the position of the iterator over the executables
    commands,           \* the child processes run so far, in order (history)
    enum_results,       \* what each enumeration so far returned (history)
    catalog,            \* the Vec<Test> collected so far
    enumState,          \* get_tests_from_executables itself
    legacy_catalog      \* what get_all_tests_from_executables returned

classifyVars == <<file, result, gtest_result>>

flagVars == <<is_gtest_enabled, is_catch2_enabled>>

scanVars == <<entries, next_entry, worker, channel, sent, tx_dropped, scan_tests,
              collector, scanState>>

runVars == <<tests, tpc, test_passed, test_number, num_tests_passed, printed,
             terminal, runState, summary>>

validateVars == <<executables, validated, first_error, validate_result>>

findVars == <<fs, cwd, search_start, to_find, current_dir, tried, find_result>>

enumVars == <<enum_executables, exectuables_only, gtest_extra_args, catch2_extra_args,
              filter, enum_next, commands, enum_results, catalog, enumState,
              legacy_catalog>>

catalogVars == <<validateVars, findVars, enumVars>>

vars == <<classifyVars, flagVars, catalogVars, scanVars, runVars>>

\* The values of a part of the program that is not running.
ClassifyIdle == file = <<>> /\ result = <<>> /\ gtest_result = <<>>

FlagsIdle == is_gtest_enabled = FALSE /\ is_catch2_enabled = FALSE

ScanIdle ==
    /\ entries = <<>> /\ next_entry = 0 /\ worker = <<>> /\ channel = <<>>
    /\ sent = <<>> /\ tx_dropped = FALSE /\ scan_tests = <<>>
    /\ collector = "idle" /\ scanState = "idle"

ValidateIdle ==
    /\ executables = <<>> /\ validated = <<>> /\ first_error = <<>>
    /\ validate_result = <<>>

FindIdle ==
    /\ fs = <<>> /\ cwd = <<>> /\ search_start = <<>> /\ to_find = <<>>
    /\ current_dir = <<>> /\ tried = <<>> /\ find_result = <<>>

EnumIdle ==
    /\ enum_executables = <<>> /\ exectuables_only = FALSE
    /\ gtest_extra_args = <<>> /\ catch2_extra_args = <<>> /\ filter = <<>>
    /\ enum_next = 0 /\ commands = <<>> /\ enum_results = <<>> /\ catalog = <<>>
    /\ enumState = "idle" /\ legacy_catalog = <<>>

CatalogIdle == ValidateIdle /\ FindIdle /\ EnumIdle

RunIdle ==
    /\ tests = <<>> /\ tpc = <<>> /\ test_passed = <<>> /\ test_number = <<>>
    /\ num_tests_passed = 0 /\ printed = <<>> /\ terminal = <<>>
    /\ runState = "idle" /\ summary = <<>>


(***************************************************************************)
(* elf_parser: integers out of byte blocks                                 *)
(***************************************************************************)

Bytes == 0..255

RECURSIVE FromLeBytes(_)
\* uN::from_le_bytes: the first byte is the least significant.
FromLeBytes(bs) ==
    IF bs = <<>> THEN 0 ELSE Head(bs) + 256 * FromLeBytes(Tail(bs))

RECURSIVE FromBeBytes(_)
\* uN::from_be_bytes: the last byte is the least significant.
FromBeBytes(bs) ==
    IF bs = <<>> THEN 0
    ELSE bs[Len(bs)] + 256 * FromBeBytes(SubSeq(bs, 1, Len(bs) - 1))

RECURSIVE ToLeBytes(_, _)
\* The n bytes that store v least significant byte first.
ToLeBytes(v, n) ==
    IF n = 0 THEN <<>> ELSE <<v % 256>> \o ToLeBytes(v \div 256, n - 1)

RECURSIVE ToBeBytes(_, _)
\* The n bytes that store v most significant byte first.
ToBeBytes(v, n) ==
    IF n = 0 THEN <<>> ELSE ToBeBytes(v \div 256, n - 1) \o <<v % 256>>

\* How a file written for the byte order `little` stores v in n bytes.
ToBytes(v, n, little) == IF little THEN ToLeBytes(v, n) ELSE ToBeBytes(v, n)

None == [some |-> FALSE]

Some(v) == [some |-> TRUE, value |-> v]

\* FetchInteger::get_uN: data.get(offset..offset + n)?, decoded by the byte
\* order the implementor reports. Offsets count from 0 as in the source.
GetUInt(data, offset, n, little) ==
    IF offset + n > Len(data)
    THEN None
    ELSE LET slice == SubSeq(data, offset + 1, offset + n)
         IN  Some(IF little THEN FromLeBytes(slice) ELSE FromBeBytes(slice))

\* get_uN(..).unwrap() on a 64-byte block: the offsets used are all inside it.
Unwrap(opt) == opt.value

(***************************************************************************)
(* Candidate files. A file is described by what its producer meant to      *)
(* write (the logical fields) and the byte order it wrote them in; the     *)
(* readers below see only the bytes.                                       *)
(***************************************************************************)

MAGIC == <<127, 69, 76, 70>>      \* b"\x7FELF"

Zeros(n) == [i \in 1..n |-> 0]

\* The 64 bytes at the start of the file (fewer when the file is shorter):
\* e_ident (magic, class, data), e_type at 0x10, e_entry at 0x18, e_shoff at
\* 0x28, e_shentsize at 0x3A, e_shnum at 0x3C; the other fields are zero.
HeaderBytes(f) ==
    LET little == f.ei_data = 1
        full == (IF f.magic_ok THEN MAGIC ELSE <<35, 33, 47, 98>>)
                \o <<f.ei_class, f.ei_data>> \o Zeros(10)
                \o ToBytes(f.e_type, 2, little) \o Zeros(6)
                \o ToBytes(f.e_entry, 8, little) \o Zeros(8)
                \o ToBytes(64, 8, little) \o Zeros(10)
                \o ToBytes(f.e_shentsize, 2, little)
                \o ToBytes(f.e_shnum, 2, little) \o Zeros(2)
    IN  SubSeq(full, 1, f.header_len)

\* What lies in a section of the file. A string table holds f.strings, a
\* symbol table f.symbols; any other section holds bytes that are no names.
SectionSize(f, sec) ==
    CASE sec.type = 3 -> Len(f.strings)
      [] sec.type = 2 -> 24 * Len(f.symbols)
      [] OTHER        -> 16

\* One 64-byte section header record as the file stores it: sh_type at
\* 0x04, sh_size at 0x20, sh_link at 0x28; the other fields are zero.
SectionHeaderBytes(f, sec) ==
    LET little == f.ei_data = 1
    IN  Zeros(4) \o ToBytes(sec.type, 4, little) \o Zeros(24)
        \o ToBytes(SectionSize(f, sec), 8, little)
        \o ToBytes(sec.link, 4, little) \o Zeros(20)

(***************************************************************************)
(* elf_parser::Header and elf_parser::SectionHeader accessors              *)
(***************************************************************************)

\* A header that is taken to be little-endian whatever its flag.
HeaderIsAlwaysLittleEndian(header_buffer) == TRUE

\* impl FetchInteger for Header: is_little_endian
HeaderIsLittleEndian(header_buffer) == header_buffer[6] = 1

\* impl FetchInteger for SectionHeader: is_little_endian
SectionHeaderIsLittleEndian(data) == TRUE

\* Header::e_type_is_64_bits
e_type_is_64_bits(header_buffer) ==
    Unwrap(GetUInt(header_buffer, 4, 1, HeaderIsLittleEndian(header_buffer))) = 2

\* e_type read at the offset of the class byte.
e_typeAtClass(header_buffer) ==
    Unwrap(GetUInt(header_buffer, 4, 1, HeaderIsLittleEndian(header_buffer)))

\* Header::e_type
e_type(header_buffer) ==
    Unwrap(GetUInt(header_buffer, 16, 2, HeaderIsLittleEndian(header_buffer)))

\* Header::e_shnum
e_shnum(header_buffer) ==
    Unwrap(GetUInt(header_buffer, 60, 2, HeaderIsLittleEndian(header_buffer)))

\* SectionHeader::sh_type
sh_type(data) == Unwrap(GetUInt(data, 4, 4, SectionHeaderIsLittleEndian(data)))

\* SectionHeader::sh_link
sh_link(data) == Unwrap(GetUInt(data, 40, 4, SectionHeaderIsLittleEndian(data)))

\* SectionHeader::sh_size
sh_size(data) == Unwrap(GetUInt(data, 32, 8, SectionHeaderIsLittleEndian(data)))

Ok(v) == [kind |-> "ok", value |-> v]

Err(e) == [kind |-> "err", error |-> e]

\* Elf::new without the check of the magic.
ElfNewAnyMagic(f) ==
    IF ~f.openable THEN Err("IoError")
    ELSE IF f.header_len < 64 THEN Err("IoError")
    ELSE LET header_buffer == HeaderBytes(f)
         IN  IF ~e_type_is_64_bits(header_buffer) THEN Err("Not64Bits")
             ELSE Ok(header_buffer)

\* Elf::new without the check of the class byte.
ElfNewAnyClass(f) ==
    IF ~f.openable THEN Err("IoError")
    ELSE IF f.header_len < 64 THEN Err("IoError")
    ELSE LET header_buffer == HeaderBytes(f)
         IN  IF SubSeq(header_buffer, 1, 4) # MAGIC THEN Err("NotAnElf")
             ELSE Ok(header_buffer)

\* Elf::new: open the file, read 64 bytes at offset 0, check the magic and
\* the class byte. Ok carries the header block.
ElfNew(f) ==
    IF ~f.openable THEN Err("IoError")
    ELSE IF f.header_len < 64 THEN Err("IoError")
    ELSE LET header_buffer == HeaderBytes(f)
         IN  IF SubSeq(header_buffer, 1, 4) # MAGIC THEN Err("NotAnElf")
             ELSE IF ~e_type_is_64_bits(header_buffer) THEN Err("Not64Bits")
             ELSE Ok(header_buffer)

\* Elf::get_all_section_headers: one read of e_shnum records at e_shoff; it
\* fails when the file ends before e_shnum records.
GetAllSectionHeaders(f, count) ==
    IF count > Len(f.sections) THEN Err("IoError")
    ELSE Ok([i \in 1..count |-> SectionHeaderBytes(f, f.sections[i])])

RECURSIVE FirstIndex(_, _, _)
\* The least index i >= from with P[i], or 0: Iterator::find / position.
FirstIndex(flags, from, upto) ==
    IF from > upto THEN 0
    ELSE IF flags[from] THEN from
    ELSE FirstIndex(flags, from + 1, upto)

\* SectionHeaders::find_symbol_table_header: index (from 1) of the first
\* header whose sh_type is 2, or 0.
FindSymbolTableHeader(headers) ==
    FirstIndex([i \in 1..Len(headers) |-> sh_type(headers[i]) = 2], 1, Len(headers))

\* Elf::get_section on the header at index i: dispatch on sh_type, read the
\* payload. The payload read fails with the file's io flags.
GetSection(f, headers, i) ==
    LET header_type == sh_type(headers[i])
    IN  CASE header_type = 2 ->
               IF f.symbols_ok THEN Ok([section |-> "Symbols", symbols |-> f.symbols])
               ELSE Err("IoError")
          [] header_type = 3 ->
               IF f.strings_ok THEN Ok([section |-> "Strings", data |-> f.strings])
               ELSE Err("IoError")
          [] OTHER -> Ok([section |-> "NotImplemented"])

(***************************************************************************)
(* String tables. A table is a sequence of cells: "0" is a NUL byte, "G"     *)
(* the bytes InitGoogleTest, "C" the bytes Catch2, "x" any other bytes.    *)
(* Names and st_name offsets are counted in cells.                         *)
(***************************************************************************)

Cells == {"0", "G", "C", "x"}

\* get_symbol_name that takes a name without a NUL to run to the end of the
\* table.
GetSymbolNameToEnd(data, st_name) ==
    IF st_name > Len(data) THEN None
    ELSE LET nul == FirstIndex([i \in 1..Len(data) |-> data[i] = "0"],
                               st_name + 1, Len(data))
         IN  IF nul = 0 THEN Some(SubSeq(data, st_name + 1, Len(data)))
             ELSE Some(SubSeq(data, st_name + 1, nul - 1))

\* StringTable::get_symbol_name: data.get(st_name..)? then
\* CStr::from_bytes_until_nul, which fails without a NUL in the slice.
GetSymbolName(data, st_name) ==
    IF st_name > Len(data) THEN None
    ELSE LET nul == FirstIndex([i \in 1..Len(data) |-> data[i] = "0"],
                               st_name + 1, Len(data))
         IN  IF nul = 0 THEN None
             ELSE Some(SubSeq(data, st_name + 1, nul - 1))

\* str::contains for one of the two marker words.
Contains(name, word) == \E i \in 1..Len(name) : name[i] = word

\* TypeOfName with the Catch2 marker tried before the GoogleTest marker.
TypeOfNameCatch2First(name, gtest_on, catch2_on) ==
    IF catch2_on /\ Contains(name, "C") THEN Some("Catch2")
    ELSE IF gtest_on /\ Contains(name, "G") THEN Some("Gtest")
    ELSE None

\* TypeOfName with the Catch2 marker accepted whether or not Catch2
\* detection is enabled.
TypeOfNameCatch2Always(name, gtest_on, catch2_on) ==
    IF gtest_on /\ Contains(name, "G") THEN Some("Gtest")
    ELSE IF Contains(name, "C") THEN Some("Catch2")
    ELSE None

\* The closure of parse_test_executable's find_map, for one symbol name.
TypeOfName(name, gtest_on, catch2_on) ==
    IF gtest_on /\ Contains(name, "G") THEN Some("Gtest")
    ELSE IF catch2_on /\ Contains(name, "C") THEN Some("Catch2")
    ELSE None

\* symbols.iter().find_map(..): the type of the first symbol that has one.
FindType(symbols, data, gtest_on, catch2_on) ==
    LET typeOf(i) ==
            LET name == GetSymbolName(data, symbols[i])
            IN  IF name.some
                THEN TypeOfName(name.value, gtest_on, catch2_on)
                ELSE None
        first == FirstIndex([i \in 1..Len(symbols) |-> typeOf(i).some],
                            1, Len(symbols))
    IN  IF first = 0 THEN None ELSE typeOf(first)

\* Results of a classification: Ok(Some(Executable)), Ok(None), Err(..) or a
\* panic of the classifying thread.
OkSome(type) == [kind |-> "some", type |-> type]

OkNone == [kind |-> "none"]

Bail(e) == [kind |-> "err", error |-> e]

Panic == [kind |-> "panic"]

\* Lines 160..173: build the Executable; metadata().unwrap().created().unwrap()
\* panics when the file's creation time cannot be had.
MakeExecutable(f, type) ==
    IF type.some
    THEN IF f.created_ok THEN OkSome(type.value) ELSE Panic
    ELSE OkNone

\* cpp_test_runner::executable_finder::parse_test_executable
ParseTestExecutable(f, gtest_on, catch2_on) ==
    LET elf == ElfNew(f)
    IN  IF elf.kind = "err" THEN Bail(elf.error)
        ELSE IF e_type(elf.value) # 2 /\ e_type(elf.value) # 3 THEN OkNone
        ELSE
        LET all == GetAllSectionHeaders(f, e_shnum(elf.value))
        IN  IF all.kind = "err" THEN Bail(all.error)
            ELSE
            LET headers == all.value
                symtab == FindSymbolTableHeader(headers)
            IN  IF symtab = 0 THEN OkNone
                ELSE IF sh_link(headers[symtab]) >= Len(headers) THEN Bail("InvalidElf")
                ELSE
                LET strtab == sh_link(headers[symtab]) + 1
                    symbols == GetSection(f, headers, symtab)
                IN  IF symbols.kind = "err" THEN Bail(symbols.error)
                    ELSE
                    LET strings == GetSection(f, headers, strtab)
                    IN  IF strings.kind = "err" THEN Bail(strings.error)
                        ELSE IF strings.value.section # "Strings" THEN Bail("InvalidElf")
                        ELSE MakeExecutable(f,
                                 FindType(symbols.value.symbols, strings.value.data,
                                          gtest_on, catch2_on))

(***************************************************************************)
(* gtest_runner::executable_finder: the GoogleTest-only classifier         *)
(***************************************************************************)

\* The free functions get_u64 / get_u32 / get_u16 / get_u8: they index the
\* block directly and take the byte order as an argument.
get_uint(data, offset, n, is_little_endian) ==
    LET slice == SubSeq(data, offset + 1, offset + n)
    IN  IF is_little_endian THEN FromLeBytes(slice) ELSE FromBeBytes(slice)

\* What parse_gtest_executable reads as all_strings from the section the
\* symbol table links to, whatever that section's type.
LinkedBytes(f, sec) ==
    CASE sec.type = 3 -> [ok |-> f.strings_ok, data |-> f.strings]
      [] sec.type = 2 -> [ok |-> f.symbols_ok, data |-> [i \in 1..Len(f.symbols) |-> "x"]]
      [] OTHER        -> [ok |-> TRUE, data |-> <<"x">>]

\* gtest_runner::executable_finder::parse_gtest_executable
ParseGtestExecutable(f) ==
    IF ~f.openable \/ f.header_len < 64 THEN Bail("IoError")
    ELSE
    LET header_buffer == HeaderBytes(f)
        is_little_endian == header_buffer[6] = 1
        is_elf == SubSeq(header_buffer, 1, 4) = MAGIC
        is_executable == get_uint(header_buffer, 16, 2, is_little_endian) \in {2, 3}
        has_valid_entry_point == get_uint(header_buffer, 24, 8, is_little_endian) # 0
        section_header_entry_size_is_64 ==
            get_uint(header_buffer, 58, 2, is_little_endian) = 64
        section_header_count == get_uint(header_buffer, 60, 2, is_little_endian)
    IN  IF ~(is_elf /\ is_executable /\ has_valid_entry_point
             /\ section_header_entry_size_is_64)
        THEN OkNone
        ELSE
        LET all == GetAllSectionHeaders(f, section_header_count)
        IN  IF all.kind = "err" THEN Bail(all.error)
            ELSE
            LET headers == all.value
                symbol_table ==
                    FirstIndex([i \in 1..Len(headers) |->
                                   get_uint(headers[i], 4, 4, is_little_endian) = 2],
                               1, Len(headers))
            IN  IF symbol_table = 0 THEN OkNone
                ELSE
                LET link == get_uint(headers[symbol_table], 40, 4, is_little_endian)
                IN  IF link >= Len(headers) THEN OkNone
                    ELSE
                    LET string_table_size ==
                            get_uint(headers[link + 1], 32, 8, is_little_endian)
                        all_strings == LinkedBytes(f, f.sections[link + 1])
                    IN  IF string_table_size = 0 THEN OkNone
                        ELSE IF ~all_strings.ok THEN Bail("IoError")
                        ELSE IF ~f.symbols_ok THEN Panic
                        ELSE MakeExecutable(f,
                                 FindType(f.symbols, all_strings.data, TRUE, FALSE))

(***************************************************************************)
(* Classification of one candidate (ClassifySpec)                          *)
(***************************************************************************)

SectionTypes == {0, 2, 3}

Sections(maxLen) ==
    UNION {[1..n -> [type : SectionTypes, link : 0..maxLen]] : n \in 0..maxLen}

SeqsUpTo(S, maxLen) == UNION {[1..n -> S] : n \in 0..maxLen}

\* A shared object built for a little-endian 64-bit target: a symbol table
\* whose one symbol is named InitGoogleTest, and its string table.
GoodFile ==
    [openable |-> TRUE, header_len |-> 64, magic_ok |-> TRUE,
     ei_class |-> 2, ei_data |-> 1, e_type |-> 3, e_entry |-> 4096,
     e_shentsize |-> 64, e_shnum |-> 2,
     sections |-> <<[type |-> 2, link |-> 1], [type |-> 3, link |-> 0]>>,
     symbols |-> <<1>>, strings |-> <<"0", "G", "0">>,
     symbols_ok |-> TRUE, strings_ok |-> TRUE, created_ok |-> TRUE]

\* The candidate differs from GoodFile in what the first 64 bytes say.
HeaderFile(f) ==
    \E o \in BOOLEAN, hl \in {5, 64}, m \in BOOLEAN, cl \in {1, 2}, d \in {1, 2},
       ty \in {1, 2, 3}, en \in {0, 4096}, es \in {40, 64} :
        f = [GoodFile EXCEPT !.openable = o, !.header_len = hl, !.magic_ok = m,
                             !.ei_class = cl, !.ei_data = d, !.e_type = ty,
                             !.e_entry = en, !.e_shentsize = es]

\* The candidate differs from GoodFile in its section header table, in the
\* count the header claims and in its byte order.
LayoutFile(f) ==
    \E secs \in Sections(MaxSections), n \in 0..(MaxSections + 1), d \in {1, 2} :
        f = [GoodFile EXCEPT !.sections = secs, !.e_shnum = n, !.ei_data = d]

\* The candidate differs from GoodFile in its symbols and its string table.
PayloadFile(f) ==
    \E syms \in SeqsUpTo(0..(MaxStrLen + 1), MaxSymbols),
       strs \in SeqsUpTo(Cells, MaxStrLen) :
        f = [GoodFile EXCEPT !.symbols = syms, !.strings = strs]

\* The candidate's payload reads fail or its creation time cannot be had:
\* with and without a marker symbol, and with a symbol table that links to
\* a string table, to itself or to another symbol table.
IoFile(f) ==
    \E secs \in {GoodFile.sections,
                 <<[type |-> 2, link |-> 0]>>,
                 <<[type |-> 2, link |-> 1], [type |-> 2, link |-> 0]>>},
       strs \in {GoodFile.strings, <<"0", "x", "0">>},
       so \in BOOLEAN, st \in BOOLEAN, c \in BOOLEAN :
        f = [GoodFile EXCEPT !.sections = secs, !.e_shnum = Len(secs),
                             !.strings = strs, !.symbols_ok = so,
                             !.strings_ok = st, !.created_ok = c]

\* The candidate differs from GoodFile in its file type and byte order, and
\* its section header table is whole, short of what e_shnum says, or without
\* a symbol table.
TypeFile(f) ==
    \E ty \in 0..4, n \in 0..(MaxSections + 1), d \in {1, 2},
       secs \in {GoodFile.sections, <<[type |-> 3, link |-> 0]>>,
                 <<[type |-> 0, link |-> 0], [type |-> 3, link |-> 0]>>} :
        f = [GoodFile EXCEPT !.e_type = ty, !.e_shnum = n, !.ei_data = d,
                             !.sections = secs]

Pending == [kind |-> "pending"]

ClassifyInit ==
    /\ \/ HeaderFile(file)
       \/ TypeFile(file)
       \/ LayoutFile(file)
       \/ PayloadFile(file)
       \/ IoFile(file)
    /\ is_gtest_enabled \in BOOLEAN
    /\ is_catch2_enabled \in BOOLEAN
    /\ result = Pending
    /\ gtest_result = Pending
    /\ ScanIdle /\ RunIdle /\ CatalogIdle

\* A call of cpp_test_runner's parse_test_executable on the candidate.
Classify ==
    /\ result = Pending /\ gtest_result = Pending
    /\ result' = ParseTestExecutable(file, is_gtest_enabled, is_catch2_enabled)
    /\ UNCHANGED <<file, gtest_result, flagVars, catalogVars, scanVars, runVars>>

\* A call of gtest_runner's parse_gtest_executable on the candidate.
ClassifyGtest ==
    /\ result = Pending /\ gtest_result = Pending
    /\ gtest_result' = ParseGtestExecutable(file)
    /\ UNCHANGED <<file, result, flagVars, catalogVars, scanVars, runVars>>

ClassifyNext == Classify \/ ClassifyGtest

ClassifySpec == ClassifyInit /\ [][ClassifyNext]_vars

(***************************************************************************)
(* Claims about classification, checked under ClassifySpec.                *)
(***************************************************************************)

Classified == result # Pending

ClassifiedGtest == gtest_result # Pending

\* The file opens and starts with 64 bytes that carry the ELF magic and the
\* 64-bit class.
Valid64(f) == f.openable /\ f.header_len = 64 /\ f.magic_ok /\ f.ei_class = 2

\* The first symbol table section of the file, or 0.
SymtabOf(f) ==
    FirstIndex([i \in 1..Len(f.sections) |-> f.sections[i].type = 2],
               1, Len(f.sections))

\* A well-formed little-endian 64-bit executable or shared object whose
\* symbol table links to a string table and whose sections can be read.
ValidBinary(f) ==
    /\ Valid64(f)
    /\ f.ei_data = 1
    /\ f.e_type \in {2, 3}
    /\ f.e_shnum = Len(f.sections)
    /\ SymtabOf(f) # 0
    /\ f.sections[SymtabOf(f)].link < Len(f.sections)
    /\ f.sections[f.sections[SymtabOf(f)].link + 1].type = 3
    /\ f.symbols_ok /\ f.strings_ok

\* The name of the i-th symbol: the cells from its st_name up to the next
\* NUL, when there is one.
NameOf(f, i) == GetSymbolName(f.strings, f.symbols[i])

HasName(f, i, word) == NameOf(f, i).some /\ Contains(NameOf(f, i).value, word)

\* Some symbol's name contains InitGoogleTest.
HasGtestSymbol(f) == \E i \in 1..Len(f.symbols) : HasName(f, i, "G")

\* Some symbol's name contains Catch2.
HasCatch2Symbol(f) == \E i \in 1..Len(f.symbols) : HasName(f, i, "C")

\* A symbol whose name contains Catch2 but not InitGoogleTest comes before
\* every symbol whose name contains InitGoogleTest.
Catch2SymbolFirst(f) ==
    \E j \in 1..Len(f.symbols) :
        /\ HasName(f, j, "C") /\ ~HasName(f, j, "G")
        /\ \A i \in 1..j : ~HasName(f, i, "G")

\* The classifier decided on `type`: it returned an Executable of that type,
\* or it panicked building one because the creation time cannot be had.
Decided(type) ==
    IF file.created_ok THEN result = OkSome(type) ELSE result = Panic

\* C7: for a file that is shorter than the 64-byte header, lacks the magic
\* or has a class byte other than 2, parse_test_executable returns an error
\* (which callers take as "not a test executable"): it neither panics nor
\* yields an Executable.
C7_NotValid64Rejected ==
    (Classified /\ ~(file.header_len >= 64 /\ file.magic_ok /\ file.ei_class = 2)) =>
        /\ result.kind = "err"
        /\ result.error \in {"IoError", "NotAnElf", "Not64Bits"}

\* C7 witness: a file with the magic and 64 bytes but the 32-bit class was
\* classified and rejected as not 64 bits.
C7_Witness ==
    /\ Classified
    /\ file.openable /\ file.header_len = 64 /\ file.magic_ok /\ file.ei_class = 1
    /\ result = Bail("Not64Bits")

\* C8 as stated: a valid binary with a symbol whose name contains
\* InitGoogleTest is classified GoogleTest-family whenever GoogleTest
\* detection is enabled, whatever its other symbols and whether or not
\* Catch2 detection is enabled; and never so with GoogleTest detection off.
C8_Original ==
    (Classified /\ ValidBinary(file) /\ HasGtestSymbol(file) /\ file.created_ok) =>
        IF is_gtest_enabled
        THEN result = OkSome("Gtest")
        ELSE result # OkSome("Gtest")

\* C8 amended: for such a binary, with GoogleTest detection enabled the
\* classifier decides GoogleTest-family provided Catch2 detection is
\* disabled or no symbol whose name contains Catch2 without InitGoogleTest
\* precedes the first InitGoogleTest symbol; with GoogleTest detection
\* disabled it never returns GoogleTest-family.
C8_GtestUnlessCatch2First ==
    (Classified /\ ValidBinary(file) /\ HasGtestSymbol(file)) =>
        /\ (is_gtest_enabled /\ (~is_catch2_enabled \/ ~Catch2SymbolFirst(file)))
              => Decided("Gtest")
        /\ ~is_gtest_enabled => result # OkSome("Gtest")

\* C8 witness: both detections enabled, a Catch2-named symbol after the
\* InitGoogleTest symbol, and the result is GoogleTest-family.
C8_Witness ==
    /\ Classified /\ ValidBinary(file)
    /\ is_gtest_enabled /\ is_catch2_enabled
    /\ HasGtestSymbol(file) /\ HasCatch2Symbol(file) /\ ~Catch2SymbolFirst(file)
    /\ Len(file.symbols) = 2
    /\ result = OkSome("Gtest")

\* C9 as stated: a binary without a symbol name containing InitGoogleTest
\* is never classified from its symbols alone (no probe is part of
\* classification): the result is never an Executable.
C9_Original ==
    (Classified /\ ~HasGtestSymbol(file)) => result.kind # "some"

\* C9 amended: for a binary without a symbol name containing
\* InitGoogleTest, classification yields an Executable only of
\* Catch2-family and only when Catch2 detection is enabled and some symbol
\* name contains Catch2; otherwise a valid binary is classified "none".
C9_NoneUnlessCatch2Symbol ==
    (Classified /\ ~HasGtestSymbol(file)) =>
        /\ result.kind = "some" =>
              (result.type = "Catch2" /\ is_catch2_enabled /\ HasCatch2Symbol(file))
        /\ (ValidBinary(file) /\ ~(is_catch2_enabled /\ HasCatch2Symbol(file)))
              => result = OkNone
        /\ (ValidBinary(file) /\ is_catch2_enabled /\ HasCatch2Symbol(file))
              => Decided("Catch2")

\* C9 witness: a valid binary with a Catch2-named symbol and no
\* InitGoogleTest symbol, Catch2 detection disabled, classified "none".
C9_Witness ==
    /\ Classified /\ ValidBinary(file)
    /\ ~HasGtestSymbol(file) /\ HasCatch2Symbol(file)
    /\ ~is_catch2_enabled /\ is_gtest_enabled
    /\ result = OkNone

\* The header is that of a 64-bit executable or shared object and the
\* first symbol table among the e_shnum section headers has a link that is
\* no index of that table.
LinkOutOfRange(f) ==
    /\ Valid64(f) /\ f.ei_data = 1 /\ f.e_type \in {2, 3}
    /\ f.e_shnum <= Len(f.sections)
    /\ LET symtab == FirstIndex([i \in 1..f.e_shnum |-> f.sections[i].type = 2],
                                1, f.e_shnum)
       IN  symtab # 0 /\ f.sections[symtab].link >= f.e_shnum

\* C10: a binary whose symbol table's link is no valid section index makes
\* classification report an error, in parse_test_executable and in
\* parse_gtest_executable alike: it is not returned as "none".
C10_MalformedReported ==
    LinkOutOfRange(file) =>
        /\ Classified => result = Bail("InvalidElf")
        /\ ClassifiedGtest => gtest_result.kind = "err"

(***************************************************************************)
(* find_test_executables (ScanSpec)                                        *)
(***************************************************************************)

\* What the walker yields for one directory entry: an Err, a directory, a
\* regular file without the executable bit, or an executable regular file.
\* The executable files of a tree are drawn from these:
\*   gtest    GoodFile
\*   catch2   GoodFile with its symbol named Catch2
\*   text     an executable script: no ELF magic
\*   nobirth  GoodFile on a filesystem that keeps no creation time
EntryKinds == {"error", "dir", "plain", "gtest", "catch2", "text", "nobirth"}

ExecutableKinds == {"gtest", "catch2", "text", "nobirth"}

ScanFile(kind) ==
    CASE kind = "gtest"   -> GoodFile
      [] kind = "catch2"  -> [GoodFile EXCEPT !.strings = <<"0", "C", "0">>]
      [] kind = "text"    -> [GoodFile EXCEPT !.magic_ok = FALSE]
      [] kind = "nobirth" -> [GoodFile EXCEPT !.created_ok = FALSE]

\* A tree with more test executables than the channel holds.
LargeTree == [i \in 1..(ChannelCapacity + 2) |-> "gtest"]

\* parse_test_executable on each kind of executable file, under each
\* setting of the two detection flags.
Classification ==
    [kind \in ExecutableKinds, gtest_on \in BOOLEAN, catch2_on \in BOOLEAN |->
        ParseTestExecutable(ScanFile(kind), gtest_on, catch2_on)]

\* The visitor closure of lines 94..104 on entry i, up to the send: what
\* it has to send, nothing, or a panic.
VisitEntry(i) ==
    IF entries[i] = "error" THEN Panic                  \* result.as_ref().unwrap()
    ELSE IF entries[i] \notin ExecutableKinds THEN OkNone   \* is_file() && executable()
    ELSE LET r == Classification[entries[i], is_gtest_enabled, is_catch2_enabled]
         IN  CASE r.kind = "some"  -> OkSome([path |-> i, executable_type |-> r.type])
               [] r.kind = "panic" -> Panic
               [] OTHER            -> OkNone            \* if let Ok(Some(..))

Workers == DOMAIN worker

NoExecutable == [path |-> 0, executable_type |-> "none"]

ScanInit ==
    /\ \/ /\ entries \in SeqsUpTo(EntryKinds, MaxEntries)
          /\ \E jobs \in 1..MaxJobs :
                worker = [w \in 1..jobs |-> [pc |-> "idle", executable |-> NoExecutable]]
       \/ /\ entries = LargeTree
          /\ worker = [w \in 1..1 |-> [pc |-> "idle", executable |-> NoExecutable]]
    /\ is_gtest_enabled \in BOOLEAN
    /\ is_catch2_enabled \in BOOLEAN
    /\ next_entry = 1
    /\ channel = <<>>
    /\ sent = <<>>
    /\ tx_dropped = FALSE
    /\ scan_tests = <<>>
    /\ collector = "receiving"
    /\ scanState = "walking"
    /\ ClassifyIdle /\ RunIdle /\ CatalogIdle

\* The worker after the visitor ran up to the send with outcome r: it has
\* an executable to send, it panicked, or it goes on to the next entry.
AfterVisit(r) ==
    CASE r.kind = "some"  -> [pc |-> "sending", executable |-> r.type]
      [] r.kind = "panic" -> [pc |-> "panicked", executable |-> NoExecutable]
      [] OTHER            -> [pc |-> "idle", executable |-> NoExecutable]

\* A walker worker takes the next entry of the tree and runs the visitor on
\* it up to the send.
Visit(w) ==
    /\ scanState = "walking"
    /\ worker[w].pc = "idle"
    /\ next_entry <= Len(entries)
    /\ next_entry' = next_entry + 1
    /\ worker' = [worker EXCEPT ![w] = AfterVisit(VisitEntry(next_entry))]
    /\ UNCHANGED <<classifyVars, flagVars, catalogVars, runVars, entries, channel, sent,
                   tx_dropped, scan_tests, collector, scanState>>

\* A send on a channel without a bound: it never blocks.
CanSendUnbounded == TRUE

\* The guard of a send on the bounded channel: it blocks while the channel
\* holds ChannelCapacity messages.
CanSend == Len(channel) < ChannelCapacity

\* Send where only the first worker's sender reaches the channel: the
\* other workers' executables are lost.
SendFromFirstWorker(w) ==
    /\ scanState = "walking"
    /\ worker[w].pc = "sending"
    /\ Len(channel) < ChannelCapacity
    /\ channel' = IF w = 1 THEN Append(channel, worker[w].executable) ELSE channel
    /\ sent' = IF w = 1 THEN Append(sent, worker[w].executable) ELSE sent
    /\ worker' = [worker EXCEPT ![w] = [pc |-> "idle", executable |-> NoExecutable]]
    /\ UNCHANGED <<classifyVars, flagVars, catalogVars, runVars, entries, next_entry,
                   tx_dropped, scan_tests, collector, scanState>>

\* tx.send(executable).unwrap()
Send(w) ==
    /\ scanState = "walking"
    /\ worker[w].pc = "sending"
    /\ CanSend
    /\ channel' = Append(channel, worker[w].executable)
    /\ sent' = Append(sent, worker[w].executable)
    /\ worker' = [worker EXCEPT ![w] = [pc |-> "idle", executable |-> NoExecutable]]
    /\ UNCHANGED <<classifyVars, flagVars, catalogVars, runVars, entries, next_entry,
                   tx_dropped, scan_tests, collector, scanState>>

\* A worker with nothing left to visit ends; its clone of tx is dropped.
WorkerEnd(w) ==
    /\ scanState = "walking"
    /\ worker[w].pc = "idle"
    /\ next_entry > Len(entries)
    /\ worker' = [worker EXCEPT ![w].pc = "done"]
    /\ UNCHANGED <<classifyVars, flagVars, catalogVars, runVars, entries, next_entry, channel,
                   sent, tx_dropped, scan_tests, collector, scanState>>

WorkersEnded == \A w \in Workers : worker[w].pc \in {"done", "panicked"}

\* walker.run returns once every worker has ended, or resumes a worker's
\* panic; then drop(tx) runs, or the unwinding closure drops tx.
WalkerRunEnds ==
    /\ scanState = "walking"
    /\ WorkersEnded
    /\ tx_dropped' = TRUE
    /\ scanState' = IF \E w \in Workers : worker[w].pc = "panicked"
                    THEN "unwinding" ELSE "joining"
    /\ UNCHANGED <<classifyVars, flagVars, catalogVars, runVars, entries, next_entry, channel,
                   sent, worker, scan_tests, collector>>

\* The receive fails as soon as the channel is empty, as try_recv does.
EmptyIsDisconnected == TRUE

\* Every sender is gone: the workers' clones and the original.
Disconnected == tx_dropped /\ WorkersEnded

\* Recv that overwrites the buffer with the received executable.
RecvKeepsLast ==
    /\ collector = "receiving"
    /\ channel # <<>>
    /\ scan_tests' = <<Head(channel)>>
    /\ channel' = Tail(channel)
    /\ UNCHANGED <<classifyVars, flagVars, catalogVars, runVars, entries, next_entry, sent,
                   worker, tx_dropped, collector, scanState>>

\* rx.recv() returns Ok(test): tests.push(test)
Recv ==
    /\ collector = "receiving"
    /\ channel # <<>>
    /\ scan_tests' = Append(scan_tests, Head(channel))
    /\ channel' = Tail(channel)
    /\ UNCHANGED <<classifyVars, flagVars, catalogVars, runVars, entries, next_entry, sent,
                   worker, tx_dropped, collector, scanState>>

\* rx.recv() returns Err on an empty channel without senders: return
CollectorReturn ==
    /\ collector = "receiving"
    /\ channel = <<>>
    /\ Disconnected
    /\ collector' = "done"
    /\ UNCHANGED <<classifyVars, flagVars, catalogVars, runVars, entries, next_entry, channel,
                   sent, worker, tx_dropped, scan_tests, scanState>>

\* thread::scope joins the collector, then find_test_executables returns
\* Ok(tests) or the panic goes on to its caller.
ScopeEnds ==
    /\ scanState \in {"joining", "unwinding"}
    /\ collector = "done"
    /\ scanState' = IF scanState = "joining" THEN "returned" ELSE "panicked"
    /\ UNCHANGED <<classifyVars, flagVars, catalogVars, runVars, entries, next_entry, channel,
                   sent, worker, tx_dropped, scan_tests, collector>>

ScanNext ==
    \/ \E w \in Workers : Visit(w)
    \/ \E w \in Workers : Send(w)
    \/ \E w \in Workers : WorkerEnd(w)
    \/ WalkerRunEnds
    \/ Recv
    \/ CollectorReturn
    \/ ScopeEnds

ScanSpec == ScanInit /\ [][ScanNext]_vars

\* The scheduler lets every thread that can take a step take one.
ScanFairSpec == ScanSpec /\ WF_vars(ScanNext)

(***************************************************************************)
(* Claims about find_test_executables, checked under ScanSpec and          *)
(* ScanFairSpec.                                                           *)
(***************************************************************************)

Range(s) == {s[i] : i \in DOMAIN s}

\* The multiset of the elements of a sequence.
BagOfSeq(s) == [x \in Range(s) |-> Cardinality({i \in DOMAIN s : s[i] = x})]

ScanEnded == scanState \in {"returned", "panicked"}

\* The entries of the tree whose visit yields an Executable, and those whose
\* visit panics: functions of the tree and the flags alone.
ClassifiedEntries == {i \in DOMAIN entries : VisitEntry(i).kind = "some"}

PanickingEntries == {i \in DOMAIN entries : VisitEntry(i).kind = "panic"}

ExpectedBag == [x \in {VisitEntry(i).type : i \in ClassifiedEntries} |-> 1]

\* C3: every executable sent on the channel is, at every moment, either
\* still in the channel or in the collector's buffer, exactly once, and
\* nothing else is; when find_test_executables returns, the returned
\* collection is exactly the multiset of the executables that were sent.
C3_ReturnsWhatWasSent ==
    /\ BagOfSeq(scan_tests) (+) BagOfSeq(channel) = BagOfSeq(sent)
    /\ scanState = "returned" =>
          /\ channel = <<>>
          /\ BagOfSeq(scan_tests) = BagOfSeq(sent)

\* C3 witness: two workers, a scan that returned two executables.
C3_Witness ==
    /\ scanState = "returned"
    /\ Cardinality(Workers) = 2
    /\ Len(sent) = 2 /\ Len(scan_tests) = 2

C5_SameMultisetForAnyPool ==
    /\ scanState = "returned" =>
          (BagOfSeq(scan_tests) = ExpectedBag /\ PanickingEntries = {})
    /\ scanState = "panicked" => PanickingEntries # {}

\* C5 witness: a scan by two workers returned the two classified entries of
\* its tree with the second one first.
C5_Witness ==
    /\ scanState = "returned"
    /\ Cardinality(Workers) = 2
    /\ Len(scan_tests) = 2
    /\ scan_tests[1].path > scan_tests[2].path

\* C6: the channel never holds more than ChannelCapacity executables, no
\* more than that are sent and not yet received, and a worker that has an
\* executable to send while the channel is full cannot send it.
C6_ChannelBounded ==
    /\ Len(channel) <= ChannelCapacity
    /\ Len(sent) - Len(scan_tests) <= ChannelCapacity
    /\ \A w \in Workers :
          (worker[w].pc = "sending" /\ Len(channel) = ChannelCapacity)
              => ~ENABLED Send(w)

\* C6 witness: the channel is full and a worker has an executable to send.
C6_Witness ==
    /\ Len(channel) = ChannelCapacity
    /\ Len(sent) - Len(scan_tests) = ChannelCapacity
    /\ \E w \in Workers : worker[w].pc = "sending"

(***************************************************************************)
(* run_all                                                                 *)
(***************************************************************************)

\* Lengths of test names the inputs are drawn from: a short name and names on
\* both sides of the longest one that still fits a progress line.
NameLens == {8, 106, 107}

\* What happens to a test's child process: it cannot be launched, or it
\* runs and exits with success or with a failure status.
Outcomes == {"pass", "fail", "nospawn"}

TestInputs == [nameLen : NameLens, outcome : Outcomes]

NoSummary == [printed |-> FALSE]

\* Number of decimal digits Display prints for an unsigned integer.
RECURSIVE Digits(_)
Digits(n) == IF n < 10 THEN 1 ELSE 1 + Digits(n \div 10)

\* std::format!("[{}/{}] {} ", test_num, tests.len(), test.name).len()
FirstPartLen(k, n, nameLen) == 1 + Digits(k) + 1 + Digits(n) + 1 + 1 + nameLen + 1

\* " PASSED" and " FAILED" are both 7 bytes long.
LastPartLen(passed) == 7

\* DESIRED_LINE_LEN - to_print_first_part.len() - to_print_last_part.len() in
\* usize: the mathematical value; negative when the subtraction overflows.
NumberOfCharsMissing(k, n, nameLen, passed) ==
    DESIRED_LINE_LEN - FirstPartLen(k, n, nameLen) - LastPartLen(passed)

\* The subtraction overflows usize: a panic with overflow checks, and without
\* them a wrapped count near 2^64 that ".".repeat cannot allocate (capacity
\* overflow panic). Either way the closure panics with the guard held.
FillingPanics(k, n, nameLen, passed) ==
    NumberOfCharsMissing(k, n, nameLen, passed) < 0

\* output.status.success()
StatusSuccess(outcome) == outcome = "pass"

\* tests.len() - num_tests_passed
NumTestsFailed(n, passed) == n - passed

\* if count > 1 { "tests" } else { "test" }
TestWord(count) == IF count > 1 THEN "tests" ELSE "test"

TestIds == DOMAIN tests

RunInit ==
    /\ \E n \in 1..MaxTests : tests \in [1..n -> TestInputs]
    /\ tpc = [t \in DOMAIN tests |-> "start"]
    /\ test_passed = [t \in DOMAIN tests |-> FALSE]
    /\ test_number = [value |-> 0, holder |-> 0, poisoned |-> FALSE]
    /\ num_tests_passed = 0
    /\ printed = <<>>
    /\ terminal = <<>>
    /\ runState = "running"
    /\ summary = NoSummary
    /\ ClassifyIdle /\ FlagsIdle /\ ScanIdle /\ CatalogIdle

\* Command::new(..).args(..).output().unwrap(): the child cannot be launched
\* and unwrap panics, or the child runs to its end and its status is kept.
RunChild(t) ==
    /\ runState = "running"
    /\ tpc[t] = "start"
    /\ IF tests[t].outcome = "nospawn"
       THEN /\ tpc' = [tpc EXCEPT ![t] = "panicked"]
            /\ UNCHANGED test_passed
       ELSE /\ tpc' = [tpc EXCEPT ![t] = "ran"]
            /\ test_passed' = [test_passed EXCEPT ![t] = StatusSuccess(tests[t].outcome)]
    /\ UNCHANGED <<classifyVars, flagVars, catalogVars, scanVars, tests, test_number, num_tests_passed, printed, terminal, runState, summary>>

\* CountPass with the increment done as a separate load and store: the store
\* may write back a value read before other closures' increments.
CountPassLoadStore(t) ==
    /\ runState = "running"
    /\ tpc[t] = "ran"
    /\ \E old \in 0..num_tests_passed :
          num_tests_passed' = IF test_passed[t] THEN old + 1 ELSE num_tests_passed
    /\ tpc' = [tpc EXCEPT ![t] = "counted"]
    /\ UNCHANGED <<classifyVars, flagVars, catalogVars, scanVars, tests, test_passed, test_number, printed, terminal, runState, summary>>

\* if test_passed { num_tests_passed.fetch_add(1, Relaxed); }
CountPass(t) ==
    /\ runState = "running"
    /\ tpc[t] = "ran"
    /\ num_tests_passed' = IF test_passed[t] THEN num_tests_passed + 1 ELSE num_tests_passed
    /\ tpc' = [tpc EXCEPT ![t] = "counted"]
    /\ UNCHANGED <<classifyVars, flagVars, catalogVars, scanVars, tests, test_passed, test_number, printed, terminal, runState, summary>>

\* let mut test_num = test_number.lock().unwrap(); *test_num += 1;
\* A poisoned mutex makes lock() return Err: unwrap panics and the guard
\* inside the error is dropped, which frees the mutex again.
LockAndCount(t) ==
    /\ runState = "running"
    /\ tpc[t] = "counted"
    /\ test_number.holder = 0
    /\ IF test_number.poisoned
       THEN /\ tpc' = [tpc EXCEPT ![t] = "panicked"]
            /\ UNCHANGED test_number
       ELSE /\ tpc' = [tpc EXCEPT ![t] = "locked"]
            /\ test_number' = [test_number EXCEPT !.value = @ + 1, !.holder = t]
    /\ UNCHANGED <<classifyVars, flagVars, catalogVars, scanVars, tests, test_passed, num_tests_passed, printed, terminal, runState, summary>>

\* ToPrint with the child's output whatever the test's status.
ToPrintOutputAlways(t, passed) ==
    <<[kind |-> "status", test |-> t], [kind |-> "output", test |-> t]>>

\* What one println!("{to_print}") puts on the standard output: the status
\* line, and beneath it the child's captured output when the test failed.
ToPrint(t, passed) ==
    IF passed THEN <<[kind |-> "status", test |-> t]>>
    ELSE <<[kind |-> "status", test |-> t], [kind |-> "output", test |-> t]>>

\* The rest of the closure, run with the guard held: the line is built and
\* written by one println!, then the guard is dropped. A panic while the
\* guard is held poisons the mutex.
PrintLine(t) ==
    /\ runState = "running"
    /\ tpc[t] = "locked"
    /\ test_number.holder = t
    /\ IF FillingPanics(test_number.value, Len(tests), tests[t].nameLen, test_passed[t])
       THEN /\ tpc' = [tpc EXCEPT ![t] = "panicked"]
            /\ test_number' = [test_number EXCEPT !.holder = 0, !.poisoned = TRUE]
            /\ UNCHANGED <<printed, terminal>>
       ELSE /\ tpc' = [tpc EXCEPT ![t] = "done"]
            /\ test_number' = [test_number EXCEPT !.holder = 0]
            /\ printed' = Append(printed,
                                 [k |-> test_number.value,
                                  n |-> Len(tests),
                                  test |-> t,
                                  passed |-> test_passed[t],
                                  filling |-> NumberOfCharsMissing(test_number.value,
                                                  Len(tests), tests[t].nameLen,
                                                  test_passed[t]),
                                  stdout |-> ~test_passed[t]])
            /\ terminal' = terminal \o ToPrint(t, test_passed[t])
    /\ UNCHANGED <<classifyVars, flagVars, catalogVars, scanVars, tests, test_passed, num_tests_passed, runState, summary>>

\* for_each returns once every closure has ended; a closure's panic is
\* resumed in the caller, and then nothing of lines 77..95 runs.
Finish ==
    /\ runState = "running"
    /\ \A t \in TestIds : tpc[t] \in {"done", "panicked"}
    /\ IF \E t \in TestIds : tpc[t] = "panicked"
       THEN /\ runState' = "panicked"
            /\ UNCHANGED summary
       ELSE /\ runState' = "returned"
            /\ summary' = [printed |-> TRUE,
                           passed |-> num_tests_passed,
                           passedWord |-> TestWord(num_tests_passed),
                           failed |-> NumTestsFailed(Len(tests), num_tests_passed),
                           failedWord |-> TestWord(NumTestsFailed(Len(tests),
                                                                  num_tests_passed))]
    /\ UNCHANGED <<classifyVars, flagVars, catalogVars, scanVars, tests, tpc, test_passed, test_number, num_tests_passed, printed, terminal>>

RunNext ==
    \/ \E t \in TestIds : RunChild(t)
    \/ \E t \in TestIds : CountPass(t)
    \/ \E t \in TestIds : LockAndCount(t)
    \/ \E t \in TestIds : PrintLine(t)
    \/ Finish

Init == RunInit

Next == RunNext

Spec == Init /\ [][Next]_vars

(***************************************************************************)
(* Claims about run_all, checked under Spec.                               *)
(***************************************************************************)

RunEnded == runState \in {"returned", "panicked"}

AllLaunched == \A t \in TestIds : tests[t].outcome # "nospawn"

\* The k of the i-th emitted line is i.
LinesNumberedInOrder == \A i \in 1..Len(printed) : printed[i].k = i

\* C1: in run_all over N tests whose children all run to completion, once
\* run_all has ended exactly N progress lines have been emitted and the
\* i-th emitted line carries k = i, whatever the interleaving.
C1_AllLinesNumbered ==
    (RunEnded /\ AllLaunched) =>
        (Len(printed) = Len(tests) /\ LinesNumberedInOrder)

\* The tests whose child process exited successfully.
PassedTests == {t \in TestIds : tests[t].outcome = "pass"}

\* C2: the summary run_all prints reports P = number of tests whose child
\* exited successfully and F = N - P, whatever the interleaving.
C2_SummaryCounts ==
    summary.printed =>
        /\ summary.passed = Cardinality(PassedTests)
        /\ summary.failed = Len(tests) - Cardinality(PassedTests)

\* C2 witness: a summary over three tests, two passed and one failed.
C2_Witness ==
    /\ summary.printed
    /\ Len(tests) = 3
    /\ summary.passed = 2
    /\ summary.failed = 1

(***************************************************************************)
(* validate_executables (ValidateSpec)                                     *)
(***************************************************************************)

Validating == [kind |-> "validating"]

\* parse_test_executable(path, true, true) on the i-th supplied path.
ValidateEntry(i) ==
    LET r == Classification[executables[i], TRUE, TRUE]
    IN  CASE r.kind = "some"  -> OkSome([path |-> i, executable_type |-> r.type])
          [] r.kind = "panic" -> Panic
          [] OTHER            -> Bail([path |-> i])   \* "{} is not a test executable"

PathIds == DOMAIN executables

ValidateInit ==
    /\ \E n \in 1..MaxPaths : executables \in [1..n -> ExecutableKinds]
    /\ validated = [i \in DOMAIN executables |-> Pending]
    /\ first_error = None
    /\ validate_result = Validating
    /\ ClassifyIdle /\ FlagsIdle /\ ScanIdle /\ RunIdle /\ FindIdle /\ EnumIdle

\* The map closure runs on one of the paths, on whichever thread of the
\* pool takes it. The collect into Result keeps the first Err it is handed.
ValidatePath(i) ==
    /\ validate_result = Validating
    /\ validated[i] = Pending
    /\ validated' = [validated EXCEPT ![i] = ValidateEntry(i)]
    /\ first_error' = IF ValidateEntry(i).kind = "err" /\ ~first_error.some
                      THEN Some(ValidateEntry(i).error)
                      ELSE first_error
    /\ UNCHANGED <<classifyVars, flagVars, scanVars, runVars, findVars, enumVars, executables,
                   validate_result>>

\* The collect ends: once every path went through the closure, or earlier
\* when an Err was kept or a closure panicked and the rest is not started.
\* A panic of a closure is resumed in the caller; otherwise the kept error
\* is returned; otherwise the Executables in the order of the paths.
ValidateEnds ==
    /\ validate_result = Validating
    /\ \/ \A i \in PathIds : validated[i] # Pending
       \/ first_error.some
       \/ \E i \in PathIds : validated[i] = Panic
    /\ validate_result' =
          IF \E i \in PathIds : validated[i] = Panic THEN Panic
          ELSE IF first_error.some THEN Bail(first_error.value)
          ELSE Ok([i \in PathIds |-> validated[i].type])
    /\ UNCHANGED <<classifyVars, flagVars, scanVars, runVars, findVars, enumVars, executables,
                   validated, first_error>>

ValidateNext ==
    \/ \E i \in PathIds : ValidatePath(i)
    \/ ValidateEnds

ValidateSpec == ValidateInit /\ [][ValidateNext]_vars

(***************************************************************************)
(* Claims about validate_executables, checked under ValidateSpec.          *)
(***************************************************************************)

\* The supplied paths that do not classify as a test executable, and those
\* on which classification panics.
FailingPaths == {i \in PathIds : ValidateEntry(i).kind = "err"}

PanickingPaths == {i \in PathIds : ValidateEntry(i).kind = "panic"}

\* The paths an error of validate_executables names.
PathsNamed(r) == {r.error.path}

\* C11: when no supplied path panics in classification, validate_executables
\* succeeds with one Executable per path if no path fails classification,
\* and otherwise fails with an error that names every failing path.
C11_EveryFailureSurfaced ==
    (validate_result # Validating /\ PanickingPaths = {}) =>
        IF FailingPaths = {}
        THEN /\ validate_result.kind = "ok"
             /\ DOMAIN validate_result.value = PathIds
        ELSE /\ validate_result.kind = "err"
             /\ PathsNamed(validate_result) = FailingPaths

(***************************************************************************)
(* Paths and the file system find_file looks at. The directories are the   *)
(* root and the chain a, a/a, ...; the declared file is named f. fs[k]     *)
(* tells what lies at f in the directory k levels below the root: nothing, *)
(* a regular file or a directory.                                          *)
(***************************************************************************)

FsKinds == {"none", "file", "dir"}

\* A path: absolute or not, and its components.
PathOf(absolute, comps) == [absolute |-> absolute, comps |-> comps]

Dir(n) == [i \in 1..n |-> "a"]

\* Path::is_absolute
IsAbsolute(p) == p.absolute

\* Path::join: an absolute argument replaces the path.
Join(p, q) == IF q.absolute THEN q ELSE PathOf(p.absolute, p.comps \o q.comps)

\* Path::parent: the path without its last component; None for the root
\* and for the empty path.
Parent(p) ==
    IF p.comps = <<>> THEN None
    ELSE Some(PathOf(p.absolute, SubSeq(p.comps, 1, Len(p.comps) - 1)))

\* The components from the root of what the path names for this process.
Absolute(p) == IF p.absolute THEN p.comps ELSE cwd \o p.comps

\* What lies at the path: a directory of the chain, whatever fs tells for
\* an f in one of them, or nothing.
KindOf(p) ==
    LET abs == Absolute(p)
        n   == Len(abs)
    IN  IF abs = Dir(n) THEN (IF n <= MaxDepth THEN "dir" ELSE "none")
        ELSE IF abs = Dir(n - 1) \o <<"f">> /\ n - 1 <= MaxDepth
             THEN fs[n - 1]
             ELSE "none"

\* Path::exists, Path::is_file
Exists(p) == KindOf(p) # "none"

IsFile(p) == KindOf(p) = "file"

\* Path::canonicalize().ok(): the absolute path of what exists.
Canonicalize(p) == IF Exists(p) THEN Some(PathOf(TRUE, Absolute(p))) ELSE None

\* file.and_then(|file| file.canonicalize().ok())
AndThenCanonicalize(found) == IF found.some THEN Canonicalize(found.value) ELSE None

RECURSIVE SearchFrom(_, _)
\* The loop of find_file from current_dir `dir`: the first path found.
SearchFrom(dir, name) ==
    IF Exists(Join(dir, name)) /\ IsFile(Join(dir, name)) THEN Some(Join(dir, name))
    ELSE IF ~Parent(dir).some THEN None
    ELSE SearchFrom(Parent(dir).value, name)

\* find_file(search_start, to_find)
FindFile(start, name) ==
    AndThenCanonicalize(IF IsAbsolute(name) THEN Some(name) ELSE SearchFrom(start, name))

(***************************************************************************)
(* find_file, step by step (FindSpec)                                      *)
(***************************************************************************)

Searching == [kind |-> "searching"]

\* The executable's directory as the caller has it: an absolute path, or a
\* path relative to the current directory (an executable named on the
\* command line). The declared file: f, or the absolute path of an f.
FindInit ==
    /\ fs \in [0..MaxDepth -> FsKinds]
    /\ \E c \in 0..MaxDepth : cwd = Dir(c)
    /\ \/ \E n \in 0..MaxDepth : search_start = PathOf(TRUE, Dir(n))
       \/ \E n \in 0..(MaxDepth - Len(cwd)) : search_start = PathOf(FALSE, Dir(n))
    /\ \/ to_find = PathOf(FALSE, <<"f">>)
       \/ \E n \in 0..MaxDepth : to_find = PathOf(TRUE, Dir(n) \o <<"f">>)
    /\ current_dir = search_start
    /\ tried = <<>>
    /\ find_result = Searching
    /\ ClassifyIdle /\ FlagsIdle /\ ScanIdle /\ RunIdle /\ ValidateIdle /\ EnumIdle

\* to_find.is_absolute(): the path itself, canonicalized.
FindAbsolute ==
    /\ find_result = Searching
    /\ IsAbsolute(to_find)
    /\ find_result' = AndThenCanonicalize(Some(to_find))
    /\ UNCHANGED <<classifyVars, flagVars, scanVars, runVars, validateVars, enumVars,
                   fs, cwd, search_start, to_find, current_dir, tried>>

\* One turn of the loop that ends it with the file found in current_dir.
FindHere ==
    /\ find_result = Searching
    /\ ~IsAbsolute(to_find)
    /\ Exists(Join(current_dir, to_find)) /\ IsFile(Join(current_dir, to_find))
    /\ tried' = Append(tried, current_dir)
    /\ find_result' = AndThenCanonicalize(Some(Join(current_dir, to_find)))
    /\ UNCHANGED <<classifyVars, flagVars, scanVars, runVars, validateVars, enumVars,
                   fs, cwd, search_start, to_find, current_dir>>

\* One turn of the loop that goes on with the parent directory.
FindUp ==
    /\ find_result = Searching
    /\ ~IsAbsolute(to_find)
    /\ ~(Exists(Join(current_dir, to_find)) /\ IsFile(Join(current_dir, to_find)))
    /\ Parent(current_dir).some
    /\ tried' = Append(tried, current_dir)
    /\ current_dir' = Parent(current_dir).value
    /\ UNCHANGED <<classifyVars, flagVars, scanVars, runVars, validateVars, enumVars,
                   fs, cwd, search_start, to_find, find_result>>

\* One turn of the loop that ends it without a file: no parent is left.
FindGiveUp ==
    /\ find_result = Searching
    /\ ~IsAbsolute(to_find)
    /\ ~(Exists(Join(current_dir, to_find)) /\ IsFile(Join(current_dir, to_find)))
    /\ ~Parent(current_dir).some
    /\ tried' = Append(tried, current_dir)
    /\ find_result' = AndThenCanonicalize(None)
    /\ UNCHANGED <<classifyVars, flagVars, scanVars, runVars, validateVars, enumVars,
                   fs, cwd, search_start, to_find, current_dir>>

FindNext == FindAbsolute \/ FindHere \/ FindUp \/ FindGiveUp

FindSpec == FindInit /\ [][FindNext]_vars

(***************************************************************************)
(* Claims about find_file, checked under FindSpec.                         *)
(***************************************************************************)

\* The depths, counted from the root, of the executable's directory and of
\* its ancestors that hold a regular file f.
HoldingAncestors ==
    {k \in 0..Len(Absolute(search_start)) : k <= MaxDepth /\ fs[k] = "file"}

Max(S) == CHOOSE m \in S : \A k \in S : k <= m

\* C18: for a relative declared path find_file returns the file of the
\* nearest directory, from the executable's directory up to the file system
\* root, that holds it, and "unresolved" when none of them does; for an
\* absolute declared path it returns that path when it exists, having
\* looked in no directory; and a search that has not returned can go on.
C18_NearestAncestorOrUnresolved ==
    /\ find_result = Searching => ENABLED FindNext
    /\ (find_result # Searching /\ ~IsAbsolute(to_find)) =>
          IF HoldingAncestors = {}
          THEN find_result = None
          ELSE find_result = Some(PathOf(TRUE, Dir(Max(HoldingAncestors)) \o <<"f">>))
    /\ (find_result # Searching /\ IsAbsolute(to_find)) =>
          /\ tried = <<>>
          /\ find_result = Canonicalize(to_find)

(***************************************************************************)
(* test_parser: enumeration of the tests of an executable. Strings are     *)
(* sequences of characters or of words; an argument that starts with       *)
(* "--gtest_filter=" has that word as its first element.                   *)
(***************************************************************************)

\* str::contains / Regex::is_match for a pattern without metacharacters:
\* the pattern occurs somewhere in the text.
IsMatch(pattern, text) ==
    \E k \in 0..(Len(text) - Len(pattern)) :
        SubSeq(text, k + 1, k + Len(pattern)) = pattern

\* filter.map(|filter| filter.is_match(name)).unwrap_or(true)
PassesFilter(name_filter, name) ==
    IF name_filter.some THEN IsMatch(name_filter.value, name) ELSE TRUE

\* str::starts_with
StartsWith(text, word) == Len(text) >= 1 /\ text[1] = word

\* test_suite.name.clone() + "." + &test.name
QualifiedName(suite_name, test_name) == suite_name \o <<".">> \o test_name

\* GtestArguments with the two fixed arguments in the other order.
GtestArgumentsFilterSecond(name, extra_args) ==
    <<(<<"--gtest_also_run_disabled_tests">>), (<<"--gtest_filter=">> \o name)>>
    \o extra_args

\* vec![format!("--gtest_filter={name}"), "--gtest_also_run_disabled_tests"]
\* followed by arguments.extend_from_slice(extra_args)
GtestArguments(name, extra_args) ==
    <<(<<"--gtest_filter=">> \o name), <<"--gtest_also_run_disabled_tests">>>>
    \o extra_args

\* executable.path.parent().unwrap_or_else(|| &executable.path)
ParentOrSelf(path) == IF Parent(path).some THEN Parent(path).value ELSE path

\* Keep the elements of a sequence that satisfy a test, in order.
RECURSIVE SelectSeqBy(_, _)
SelectSeqBy(seq, keep) ==
    IF seq = <<>> THEN <<>>
    ELSE (IF keep[1] THEN <<Head(seq)>> ELSE <<>>)
         \o SelectSeqBy(Tail(seq), Tail(keep))

RECURSIVE Flatten(_)
\* Iterator::flatten over a sequence of sequences.
Flatten(seqs) == IF seqs = <<>> THEN <<>> ELSE Head(seqs) \o Flatten(Tail(seqs))

RECURSIVE JoinComps(_)
\* The components of a path with "/" between them.
JoinComps(comps) ==
    IF Len(comps) <= 1 THEN comps
    ELSE <<Head(comps), "/">> \o JoinComps(Tail(comps))

\* path.to_string_lossy()
ToStringLossy(path) == (IF path.absolute THEN <<"/">> ELSE <<>>) \o JoinComps(path.comps)

\* The Test of "executables only" mode.
ExecutableTestNoArguments(executable, extra_args) ==
    [name |-> ToStringLossy(executable.path), file |-> None, line |-> None,
     executable |-> executable.path, arguments |-> <<>>, index |-> None]

ExecutableTest(executable, extra_args) ==
    [name |-> ToStringLossy(executable.path), file |-> None, line |-> None,
     executable |-> executable.path, arguments |-> extra_args, index |-> None]

\* The Test the map closure builds for one case of a GoogleTest suite.
GtestTest(executable, test_suite, test, extra_args) ==
    LET name == QualifiedName(test_suite.name, test.name)
    IN  [name |-> name,
         file |-> FindFile(ParentOrSelf(executable.path), test.file),
         line |-> Some(test.line),
         executable |-> executable.path,
         arguments |-> GtestArguments(name, extra_args),
         index |-> None]

\* The tests of one suite: filter on the case, then map.
GtestSuiteTests(executable, test_suite, extra_args, name_filter) ==
    LET cases == test_suite.testsuite
        kept  == SelectSeqBy(cases, [k \in DOMAIN cases |->
                                        PassesFilter(name_filter, cases[k].name)])
    IN  [k \in DOMAIN kept |-> GtestTest(executable, test_suite, kept[k], extra_args)]

\* A child process that was run: the executable and its arguments.
Command(executable, args) == [path |-> executable.path, args |-> args]

\* What an enumeration did: the child processes it ran, in order, and what
\* it returned.
Enumerated(cmds, outcome) == [commands |-> cmds, result |-> outcome]

\* get_tests_from_gtest_executable. executable.child tells what the child
\* does when run with the listing arguments: spawned or not, its exit
\* status, and the listing its stderr parses to (parsed = FALSE: no JSON of
\* the expected shape).
GetTestsFromGtestExecutable(executable, executable_only, extra_args, name_filter) ==
    LET child == executable.child
        ran   == <<Command(executable, <<"--gtest_list_tests",
                                         "--gtest_output=json:/dev/stderr">>)>>
    IN  IF ~child.spawned THEN Enumerated(ran, Err("io"))
        ELSE IF ~child.success THEN Enumerated(ran, Err("is not a gtest executable!"))
        ELSE IF ~child.parsed THEN Enumerated(ran, Err("Failed to parse gtest json"))
        ELSE IF executable_only
             THEN Enumerated(ran, Ok(<<ExecutableTest(executable, extra_args)>>))
        ELSE Enumerated(ran, Ok(Flatten(
                [k \in DOMAIN child.testsuites |->
                    GtestSuiteTests(executable, child.testsuites[k],
                                    extra_args, name_filter)])))

\* str::trim on a sequence of words: the blanks at both ends go.
RECURSIVE TrimStart(_)
TrimStart(text) ==
    IF text # <<>> /\ Head(text) = " " THEN TrimStart(Tail(text)) ELSE text

RECURSIVE TrimEnd(_)
TrimEnd(text) ==
    IF text # <<>> /\ text[Len(text)] = " "
    THEN TrimEnd(SubSeq(text, 1, Len(text) - 1))
    ELSE text

Trim(text) == TrimEnd(TrimStart(text))

\* line.split_once(':'): the parts before and after the first colon.
SplitOnce(line) ==
    LET colons == {k \in DOMAIN line : line[k] = ":"}
    IN  IF colons = {} THEN None
        ELSE LET k == CHOOSE c \in colons : \A d \in colons : c <= d
             IN  Some([key |-> SubSeq(line, 1, k - 1),
                       value |-> SubSeq(line, k + 1, Len(line))])

\* The closure of lines().any(..): key.trim() == "framework" &&
\* value.trim() == "Catch2"
IsFrameworkLine(line) ==
    /\ SplitOnce(line).some
    /\ Trim(SplitOnce(line).value.key) = <<"framework">>
    /\ Trim(SplitOnce(line).value.value) = <<"Catch2">>

\* A probe that looks at the output whatever the exit status.
IsCatch2ExecutableAnyStatus(probe) ==
    \E k \in DOMAIN probe.stdout : IsFrameworkLine(probe.stdout[k])

\* is_catch2_executable, once the probe was spawned.
IsCatch2Executable(probe) ==
    IF ~probe.success THEN FALSE
    ELSE \E k \in DOMAIN probe.stdout : IsFrameworkLine(probe.stdout[k])

\* The Test the map closure builds for one test of a Catch2 listing.
Catch2Test(executable, test) ==
    [name |-> test.name,
     file |-> FindFile(ParentOrSelf(executable.path), test.file),
     line |-> Some(test.line),
     executable |-> executable.path,
     arguments |-> <<test.name>>,
     index |-> None]

\* get_tests_from_catch2_executable. executable.child.probe tells what the
\* child does when run with --libidentify, executable.child.list what it
\* does when run with --list-tests --reporter=JSON.
GetTestsFromCatch2Executable(executable, executable_only, extra_args, name_filter) ==
    LET probe  == executable.child.probe
        list   == executable.child.list
        probed == <<Command(executable, <<"--libidentify">>)>>
        listed == probed \o <<Command(executable, <<"--list-tests", "--reporter=JSON">>)>>
    IN  IF ~probe.spawned THEN Enumerated(probed, Err("io"))
        ELSE IF ~IsCatch2Executable(probe) THEN Enumerated(probed, Ok(<<>>))
        ELSE IF executable_only
             THEN Enumerated(probed, Ok(<<ExecutableTest(executable, extra_args)>>))
        ELSE IF ~list.spawned THEN Enumerated(listed, Err("io"))
        ELSE IF ~list.success THEN Enumerated(listed, Err("is not a catch2 executable!"))
        ELSE IF ~list.parsed THEN Enumerated(listed, Err("Failed to parse catch2 json"))
        ELSE LET kept == SelectSeqBy(list.tests, [k \in DOMAIN list.tests |->
                                        PassesFilter(name_filter, list.tests[k].name)])
             IN  Enumerated(listed,
                            Ok([k \in DOMAIN kept |-> Catch2Test(executable, kept[k])]))

\* get_tests_from_executable: by the executable's type.
GetTestsFromExecutable(executable, executable_only, gtest_args, catch2_args, name_filter) ==
    IF executable.executable_type = "Gtest"
    THEN GetTestsFromGtestExecutable(executable, executable_only, gtest_args, name_filter)
    ELSE GetTestsFromCatch2Executable(executable, executable_only, catch2_args, name_filter)

(***************************************************************************)
(* src/gtest_parser.rs: the enumeration of the GoogleTest-only runner      *)
(***************************************************************************)

\* What a GoogleTest child lists when it is given --gtest_filter= arguments
\* without wildcards: the cases whose qualified name is the pattern of the
\* last such argument; every case when there is none.
ListedSuites(child, filters) ==
    IF filters = <<>> THEN child.testsuites
    ELSE LET pattern == Tail(filters[Len(filters)])
         IN  [k \in DOMAIN child.testsuites |->
                LET suite == child.testsuites[k]
                IN  [name |-> suite.name,
                     testsuite |-> SelectSeqBy(suite.testsuite,
                        [c \in DOMAIN suite.testsuite |->
                            QualifiedName(suite.name, suite.testsuite[c].name) = pattern])]]

\* The extra arguments that do, and that do not, specify a filter.
FilterArguments(extra_args) ==
    SelectSeqBy(extra_args, [k \in DOMAIN extra_args |->
                                StartsWith(extra_args[k], "--gtest_filter=")])

OtherArguments(extra_args) ==
    SelectSeqBy(extra_args, [k \in DOMAIN extra_args |->
                                ~StartsWith(extra_args[k], "--gtest_filter=")])

\* The Test get_all_tests_from_executable builds for one case.
LegacyTest(executable, test_suite, test, extra_args) ==
    LET name == QualifiedName(test_suite.name, test.name)
    IN  [name |-> name,
         file |-> Some(test.file),
         line |-> Some(test.line),
         executable |-> executable.path,
         arguments |-> <<(<<"--gtest_filter=">> \o name),
                         <<"--gtest_also_run_disabled_tests">>>>
                       \o OtherArguments(extra_args)]

\* get_all_tests_from_executable
GetAllTestsFromExecutable(executable, extra_args) ==
    LET child == executable.child
    IN  IF ~child.spawned THEN Err("io")
        ELSE IF ~child.parsed THEN Err("json")
        ELSE LET suites == ListedSuites(child, FilterArguments(extra_args))
             IN  Ok(Flatten([k \in DOMAIN suites |->
                    [c \in DOMAIN suites[k].testsuite |->
                        LegacyTest(executable, suites[k], suites[k].testsuite[c],
                                   extra_args)]]))

\* get_all_tests_from_executables: map, collect into Result (the first Err
\* in the order of the executables), flatten.
GetAllTestsFromExecutables(execs, extra_args) ==
    LET results == [k \in DOMAIN execs |-> GetAllTestsFromExecutable(execs[k], extra_args)]
        errors  == {k \in DOMAIN execs : results[k].kind = "err"}
    IN  IF errors # {}
        THEN results[CHOOSE k \in errors : \A j \in errors : k <= j]
        ELSE Ok(Flatten([k \in DOMAIN execs |-> results[k].value]))

(***************************************************************************)
(* get_tests_from_executables (EnumSpec)                                   *)
(***************************************************************************)

\* Two test cases as a listing declares them: c in the source file f, which
\* find_file resolves, and d in the source file g, which exists nowhere.
CaseC == [name |-> <<"c">>, file |-> PathOf(FALSE, <<"f">>), line |-> 10]

CaseD == [name |-> <<"d">>, file |-> PathOf(FALSE, <<"g">>), line |-> 20]

Cases == {CaseC, CaseD}

SuiteNames == {<<"S">>, <<"T">>}

Suites == [name : SuiteNames, testsuite : SeqsUpTo(Cases, MaxCases)]

SomeListing ==
    <<[name |-> <<"S">>, testsuite |-> <<CaseC, CaseD>>],
      [name |-> <<"T">>, testsuite |-> <<CaseC>>]>>

\* Name filters: none, one that matches a suite name only, one that matches
\* a case name, one that matches a qualified name only, one that matches
\* nothing.
Filters ==
    {None} \cup {Some(pattern) : pattern \in {<<"S">>, <<"c">>, <<"S", ".", "c">>, <<"x">>}}

ExtraArgs == {<<"--gtest_filter=", "S", ".", "c">>, <<"--foo">>, <<"--bar">>}

ExecutableNames == <<"t1", "t2", "t3", "t4">>

\* The k-th executable of a catalog: /a/t<k>.
ExecutableAt(k, type, child) ==
    [path |-> PathOf(TRUE, <<"a", ExecutableNames[k]>>),
     executable_type |-> type, child |-> child]

\* What a GoogleTest executable does when asked for its listing.
GtestChild(spawned, success, parsed, testsuites) ==
    [spawned |-> spawned, success |-> success, parsed |-> parsed,
     testsuites |-> testsuites]

\* What a Catch2 executable does when probed and when asked for its listing.
Probe(spawned, success, stdout) ==
    [spawned |-> spawned, success |-> success, stdout |-> stdout]

Listing(spawned, success, parsed, listed) ==
    [spawned |-> spawned, success |-> success, parsed |-> parsed, tests |-> listed]

GoodProbe == Probe(TRUE, TRUE, <<<<"description", ":", " ", "x">>,
                                 <<"framework", ":", " ", "Catch2">>>>)

GoodListing == Listing(TRUE, TRUE, TRUE, <<CaseC, CaseD>>)

\* The executables a catalog is built from: GoogleTest and Catch2
\* executables that list their tests, and ones that fail in each way the
\* code tells apart.
ChildKinds ==
    {"gtest", "gtest-nospawn", "gtest-exit1", "gtest-badjson",
     "catch2", "catch2-nospawn", "catch2-other", "catch2-probe-exit1",
     "catch2-list-exit1", "catch2-badjson"}

ExecutableOfKind(k, kind) ==
    CASE kind = "gtest" ->
            ExecutableAt(k, "Gtest", GtestChild(TRUE, TRUE, TRUE, SomeListing))
      [] kind = "gtest-nospawn" ->
            ExecutableAt(k, "Gtest", GtestChild(FALSE, FALSE, FALSE, <<>>))
      [] kind = "gtest-exit1" ->
            ExecutableAt(k, "Gtest", GtestChild(TRUE, FALSE, TRUE, SomeListing))
      [] kind = "gtest-badjson" ->
            ExecutableAt(k, "Gtest", GtestChild(TRUE, TRUE, FALSE, <<>>))
      [] kind = "catch2" ->
            ExecutableAt(k, "Catch2", [probe |-> GoodProbe, list |-> GoodListing])
      [] kind = "catch2-nospawn" ->
            ExecutableAt(k, "Catch2", [probe |-> Probe(FALSE, FALSE, <<>>),
                                       list |-> GoodListing])
      [] kind = "catch2-other" ->
            ExecutableAt(k, "Catch2",
                         [probe |-> Probe(TRUE, TRUE, <<<<"framework", ":", " ", "x">>>>),
                          list |-> GoodListing])
      [] kind = "catch2-probe-exit1" ->
            ExecutableAt(k, "Catch2", [probe |-> Probe(TRUE, FALSE, GoodProbe.stdout),
                                       list |-> GoodListing])
      [] kind = "catch2-list-exit1" ->
            ExecutableAt(k, "Catch2", [probe |-> GoodProbe,
                                       list |-> Listing(TRUE, FALSE, TRUE, <<CaseC>>)])
      [] kind = "catch2-badjson" ->
            ExecutableAt(k, "Catch2", [probe |-> GoodProbe,
                                       list |-> Listing(TRUE, TRUE, FALSE, <<>>)])

ProbeWords == {"framework", "Catch2", ":", " "}

\* One GoogleTest executable with any listing.
ListingCatalog ==
    /\ \E listing \in SeqsUpTo(Suites, MaxSuites) :
          enum_executables = <<ExecutableAt(1, "Gtest", GtestChild(TRUE, TRUE, TRUE, listing))>>
    /\ filter \in Filters
    /\ exectuables_only = FALSE
    /\ gtest_extra_args = <<(<<"--foo">>)>>
    /\ catch2_extra_args = <<>>

\* One executable with any extra arguments.
ArgumentsCatalog ==
    /\ \E kind \in {"gtest", "catch2"} :
          enum_executables = <<ExecutableOfKind(1, kind)>>
    /\ filter \in Filters
    /\ exectuables_only \in BOOLEAN
    /\ gtest_extra_args \in SeqsUpTo(ExtraArgs, MaxArgs)
    /\ catch2_extra_args \in {<<>>, <<(<<"--bar">>)>>}

\* One Catch2 executable with any answer to the probe.
ProbeCatalog ==
    /\ \E success \in BOOLEAN, line \in SeqsUpTo(ProbeWords, MaxLineLen),
          before \in {<<>>, <<(<<"description", ":", " ", "x">>)>>} :
          enum_executables =
              <<ExecutableAt(1, "Catch2",
                             [probe |-> Probe(TRUE, success, before \o <<line>>),
                              list |-> GoodListing])>>
    /\ filter = None
    /\ exectuables_only \in BOOLEAN
    /\ gtest_extra_args = <<>>
    /\ catch2_extra_args = <<(<<"--bar">>)>>

\* Several executables, working and failing ones.
BulkCatalog ==
    /\ \E n \in 1..MaxExecutables : \E kinds \in [1..n -> ChildKinds] :
          enum_executables = [k \in 1..n |-> ExecutableOfKind(k, kinds[k])]
    /\ filter \in {None, Some(<<"c">>)}
    /\ exectuables_only \in BOOLEAN
    /\ gtest_extra_args = <<(<<"--foo">>)>>
    /\ catch2_extra_args = <<>>

EnumInit ==
    /\ ListingCatalog \/ ArgumentsCatalog \/ ProbeCatalog \/ BulkCatalog
    /\ enum_next = 1
    /\ commands = <<>>
    /\ enum_results = <<>>
    /\ catalog = <<>>
    /\ enumState = "enumerating"
    /\ legacy_catalog = Pending
    /\ fs = [k \in 0..MaxDepth |-> IF k = 0 THEN "file" ELSE "none"]
    /\ cwd = Dir(0)
    /\ search_start = <<>> /\ to_find = <<>> /\ current_dir = <<>>
    /\ tried = <<>> /\ find_result = <<>>
    /\ ClassifyIdle /\ FlagsIdle /\ ScanIdle /\ RunIdle /\ ValidateIdle

\* One turn of the filter_map closure: the next executable is enumerated;
\* its tests go to the catalog when the enumeration returned Ok.
EnumerateOne ==
    /\ enumState = "enumerating"
    /\ legacy_catalog = Pending
    /\ enum_next <= Len(enum_executables)
    /\ LET e == GetTestsFromExecutable(enum_executables[enum_next], exectuables_only,
                                       gtest_extra_args, catch2_extra_args, filter)
       IN  /\ commands' = commands \o e.commands
           /\ enum_results' = Append(enum_results, e.result)
           /\ catalog' = IF e.result.kind = "ok" THEN catalog \o e.result.value
                         ELSE catalog
    /\ enum_next' = enum_next + 1
    /\ UNCHANGED <<classifyVars, flagVars, scanVars, runVars, validateVars, findVars,
                   enum_executables, exectuables_only, gtest_extra_args,
                   catch2_extra_args, filter, enumState, legacy_catalog>>

\* The iterator is exhausted: get_tests_from_executables returns the Vec.
EnumEnds ==
    /\ enumState = "enumerating"
    /\ legacy_catalog = Pending
    /\ enum_next > Len(enum_executables)
    /\ enumState' = "returned"
    /\ UNCHANGED <<classifyVars, flagVars, scanVars, runVars, validateVars, findVars,
                   enum_executables, exectuables_only, gtest_extra_args,
                   catch2_extra_args, filter, enum_next, commands, enum_results,
                   catalog, legacy_catalog>>

\* A call of src/gtest_parser.rs' get_all_tests_from_executables on the
\* same executables, which it takes to be GoogleTest executables.
EnumerateLegacy ==
    /\ enumState = "enumerating"
    /\ legacy_catalog = Pending
    /\ enum_next = 1
    /\ \A k \in DOMAIN enum_executables : enum_executables[k].executable_type = "Gtest"
    /\ legacy_catalog' = GetAllTestsFromExecutables(enum_executables, gtest_extra_args)
    /\ enumState' = "returned"
    /\ UNCHANGED <<classifyVars, flagVars, scanVars, runVars, validateVars, findVars,
                   enum_executables, exectuables_only, gtest_extra_args,
                   catch2_extra_args, filter, enum_next, commands, enum_results,
                   catalog>>

EnumNext == EnumerateOne \/ EnumEnds \/ EnumerateLegacy

EnumSpec == EnumInit /\ [][EnumNext]_vars

(***************************************************************************)
(* Claims about enumeration, checked under EnumSpec.                       *)
(***************************************************************************)

\* get_tests_from_executables has returned the catalog of one executable.
ReturnedOne ==
    /\ enumState = "returned" /\ legacy_catalog = Pending
    /\ Len(enum_executables) = 1

TheExecutable == enum_executables[1]

\* ... of a GoogleTest executable whose listing ran, succeeded and parsed,
\* and tests were asked for.
ListedGtest ==
    /\ ReturnedOne
    /\ TheExecutable.executable_type = "Gtest"
    /\ TheExecutable.child.spawned /\ TheExecutable.child.success
    /\ TheExecutable.child.parsed
    /\ ~exectuables_only

\* The (suite, case) pairs of a listing, in its order.
ListedPairs(testsuites) ==
    Flatten([k \in DOMAIN testsuites |->
                [c \in DOMAIN testsuites[k].testsuite |->
                    [suite |-> testsuites[k].name,
                     case  |-> testsuites[k].testsuite[c].name]]])

\* "<suite>.<case>"
DottedName(pair) == pair.suite \o <<".">> \o pair.case

\* C12: without a name filter the catalog of a GoogleTest executable has
\* one Test per (suite, case) pair of the listing, in order, named
\* "<suite>.<case>", whose arguments begin with "--gtest_filter=<name>"
\* and "--gtest_also_run_disabled_tests".
C12_OneTestPerCase ==
    (ListedGtest /\ filter = None) =>
        LET pairs == ListedPairs(TheExecutable.child.testsuites)
        IN  /\ Len(catalog) = Len(pairs)
            /\ \A k \in DOMAIN catalog :
                  /\ catalog[k].name = DottedName(pairs[k])
                  /\ Len(catalog[k].arguments) >= 2
                  /\ catalog[k].arguments[1] = <<"--gtest_filter=">> \o DottedName(pairs[k])
                  /\ catalog[k].arguments[2] = <<"--gtest_also_run_disabled_tests">>

\* C12 witness: two suites of two cases each gave four tests.
C12_Witness ==
    /\ ListedGtest /\ filter = None
    /\ Len(TheExecutable.child.testsuites) = 2
    /\ \A k \in 1..2 : Len(TheExecutable.child.testsuites[k].testsuite) = 2
    /\ Len(catalog) = 4

\* C13: the arguments of every GoogleTest Test are the two fixed arguments
\* followed by the extra arguments that do not start with
\* "--gtest_filter=", in their order: one filter argument in all.
C13_ExtraFiltersExcluded ==
    ListedGtest =>
        \A k \in DOMAIN catalog :
            /\ SubSeq(catalog[k].arguments, 3, Len(catalog[k].arguments))
                  = OtherArguments(gtest_extra_args)
            /\ Cardinality({a \in DOMAIN catalog[k].arguments :
                              StartsWith(catalog[k].arguments[a], "--gtest_filter=")}) = 1

\* C14: with a name filter, the cases of a GoogleTest listing that are in
\* the catalog are those whose qualified name "<suite>.<case>" the filter
\* matches.
C14_FilterOnQualifiedName ==
    (ListedGtest /\ filter.some) =>
        LET pairs == ListedPairs(TheExecutable.child.testsuites)
        IN  {catalog[k].name : k \in DOMAIN catalog}
              = {DottedName(pairs[k]) : k \in {j \in DOMAIN pairs :
                                                IsMatch(filter.value, DottedName(pairs[j]))}}

\* What the enumeration of the executable returns without a name filter.
Unfiltered ==
    GetTestsFromExecutable(TheExecutable, exectuables_only, gtest_extra_args,
                           catch2_extra_args, None).result

\* C15: the catalog under a name filter is the unfiltered catalog without
\* the Tests whose name the filter does not match, each Test unchanged.
C15_FilterOnlySelects ==
    (ReturnedOne /\ ~exectuables_only /\ filter.some /\ Unfiltered.kind = "ok") =>
        catalog = SelectSeqBy(Unfiltered.value,
                              [k \in DOMAIN Unfiltered.value |->
                                  IsMatch(filter.value, Unfiltered.value[k].name)])

\* n blanks.
Blanks(n) == [k \in 1..n |-> " "]

\* A line of the probe's output that says `framework: Catch2`: the word
\* framework, a colon, the word Catch2, with blanks allowed around each.
ReportsCatch2(line) ==
    \E a, b, c, d \in 0..Len(line) :
        line = Blanks(a) \o <<"framework">> \o Blanks(b) \o <<":">>
               \o Blanks(c) \o <<"Catch2">> \o Blanks(d)

\* The probe of a Catch2 executable ran and says it is a Catch2 executable.
ProbeReportsCatch2(executable) ==
    /\ executable.child.probe.success
    /\ \E k \in DOMAIN executable.child.probe.stdout :
          ReportsCatch2(executable.child.probe.stdout[k])

ListTestsInvoked == \E k \in DOMAIN commands : "--list-tests" \in Range(commands[k].args)

\* C16: the enumeration of a Catch2 executable runs the --libidentify probe
\* as its first child process; when the probe ran and exited non-zero, or no
\* line of its standard output has the key framework and the value Catch2,
\* the enumeration returns Ok with no tests and --list-tests is never run.
C16_ProbeFirstEmptyWhenNotCatch2 ==
    (ReturnedOne /\ TheExecutable.executable_type = "Catch2") =>
        /\ commands # <<>>
        /\ commands[1] = [path |-> TheExecutable.path, args |-> <<"--libidentify">>]
        /\ (TheExecutable.child.probe.spawned /\ ~ProbeReportsCatch2(TheExecutable)) =>
              /\ enum_results = <<Ok(<<>>)>>
              /\ catalog = <<>>
              /\ ~ListTestsInvoked

\* A probe that exited with status 0 and printed a framework line naming
\* another framework: nothing listed, nothing returned.
C16_Witness ==
    /\ ReturnedOne /\ TheExecutable.executable_type = "Catch2"
    /\ ~exectuables_only
    /\ TheExecutable.child.probe.spawned /\ TheExecutable.child.probe.success
    /\ \E k \in DOMAIN TheExecutable.child.probe.stdout :
          /\ Len(TheExecutable.child.probe.stdout[k]) >= 2
          /\ TheExecutable.child.probe.stdout[k][1] = "framework"
          /\ TheExecutable.child.probe.stdout[k][2] = ":"
    /\ ~ProbeReportsCatch2(TheExecutable)
    /\ enum_results = <<Ok(<<>>)>>
    /\ Len(commands) = 1

\* get_tests_from_executables has returned in "executables only" mode.
ReturnedExecutablesOnly ==
    /\ enumState = "returned" /\ legacy_catalog = Pending
    /\ exectuables_only

\* The Test that stands for a whole executable.
WholeExecutable(executable) ==
    [name |-> ToStringLossy(executable.path), file |-> None, line |-> None,
     executable |-> executable.path,
     arguments |-> IF executable.executable_type = "Gtest" THEN gtest_extra_args
                   ELSE catch2_extra_args,
     index |-> None]

\* The one child process that checks an executable is what its type says:
\* the listing for GoogleTest, the probe for Catch2.
CheckCommand(executable) ==
    [path |-> executable.path,
     args |-> IF executable.executable_type = "Gtest"
              THEN <<"--gtest_list_tests", "--gtest_output=json:/dev/stderr">>
              ELSE <<"--libidentify">>]

\* The check passes: the listing was spawned, exited with 0 and parsed; the
\* probe was spawned and reports Catch2.
CheckPasses(executable) ==
    IF executable.executable_type = "Gtest"
    THEN executable.child.spawned /\ executable.child.success /\ executable.child.parsed
    ELSE executable.child.probe.spawned /\ ProbeReportsCatch2(executable)

ReturnedTests ==
    /\ enumState = "returned" /\ legacy_catalog = Pending
    /\ ~exectuables_only

\* C19: when the source file a listing declares for a test cannot be
\* resolved, the enumeration still succeeds and the Test has neither a file
\* nor a line; a Test has a file and a line only when the file resolved.
C19_NoFileNoLine ==
    ReturnedTests =>
        /\ \A k \in DOMAIN enum_results : enum_results[k].kind = "ok" =>
              \A t \in DOMAIN enum_results[k].value :
                  enum_results[k].value[t].file.some = enum_results[k].value[t].line.some
        /\ \A k \in DOMAIN catalog : catalog[k].file.some = catalog[k].line.some

\* The tests of the executables whose enumeration alone returns Ok, in the
\* order of the executables; alone[k] is what enumerating executable k alone
\* returns.
TestsOfTheOthers(alone) ==
    Flatten([k \in DOMAIN alone |->
                IF alone[k].kind = "ok" THEN alone[k].value ELSE <<>>])

\* C20: a catalog built from several executables has, for every executable
\* whose enumeration succeeds, exactly the tests enumerating it alone
\* returns, and nothing for an executable whose enumeration fails; the
\* build itself does not fail. Stated of get_tests_from_executables and of
\* get_all_tests_from_executables.
C20_FailuresIsolated ==
    /\ (enumState = "returned" /\ legacy_catalog = Pending) =>
          catalog = TestsOfTheOthers(
              [k \in DOMAIN enum_executables |->
                  GetTestsFromExecutable(enum_executables[k], exectuables_only,
                      gtest_extra_args, catch2_extra_args, filter).result])
    /\ legacy_catalog # Pending =>
          /\ legacy_catalog.kind = "ok"
          /\ legacy_catalog.value = TestsOfTheOthers(
              [k \in DOMAIN enum_executables |->
                  GetAllTestsFromExecutable(enum_executables[k], gtest_extra_args)])

\* The part of C20 that is about get_tests_from_executables.
C20_CurrentIsolates ==
    (enumState = "returned" /\ legacy_catalog = Pending) =>
        catalog = TestsOfTheOthers(
            [k \in DOMAIN enum_executables |->
                GetTestsFromExecutable(enum_executables[k], exectuables_only,
                    gtest_extra_args, catch2_extra_args, filter).result])

(***************************************************************************)
(* Further claims about find_test_executables, checked under ScanSpec.     *)
(***************************************************************************)

\* C21: whatever goes wrong with a candidate of a scan (a walk error, no
\* binary, unavailable metadata), no worker panics, the scan ends by
\* returning, and what it returns is every candidate that classifies as a
\* test executable.
C21_EveryErrorSwallowed ==
    /\ \A w \in Workers : worker[w].pc # "panicked"
    /\ scanState # "panicked"
    /\ scanState = "returned" => BagOfSeq(scan_tests) = ExpectedBag

(***************************************************************************)
(* Further claims about run_all, checked under Spec.                       *)
(***************************************************************************)

\* The progress lines printed for test t.
LinesOf(t) == {i \in DOMAIN printed : printed[i].test = t}

\* C22: when every child process can be launched, whatever tests pass and
\* fail, run_all ends by returning, after every test was run and reported
\* exactly once; run_all panics only when a child cannot be launched.
C22_TestFailureIsNoSystemError ==
    /\ (RunEnded /\ AllLaunched) =>
          /\ runState = "returned"
          /\ \A t \in TestIds : tpc[t] = "done" /\ Cardinality(LinesOf(t)) = 1
    /\ runState = "panicked" => ~AllLaunched

\* The word the summary has after a count.
WordFor(count) == IF count = 1 THEN "test" ELSE "tests"

\* C23: in the summary each count is followed by "test" when it is 1 and by
\* "tests" otherwise, 0 included.
C23_SingularOnlyForOne ==
    summary.printed =>
        /\ summary.passedWord = WordFor(summary.passed)
        /\ summary.failedWord = WordFor(summary.failed)

\* The blocks of the terminal that test t wrote.
StatusOf(t) == {i \in DOMAIN terminal : terminal[i] = [kind |-> "status", test |-> t]}

OutputOf(t) == {i \in DOMAIN terminal : terminal[i] = [kind |-> "output", test |-> t]}

\* C26: on the terminal, the captured output of a failed test comes
\* directly beneath that test's status line, nothing of another test in
\* between, in every interleaving; a failed test's status line is always
\* followed by its output, and a test that passed has no output at all.
C26_OutputBeneathOwnStatus ==
    /\ \A i \in DOMAIN terminal :
          terminal[i].kind = "output" =>
              /\ i > 1
              /\ terminal[i - 1] = [kind |-> "status", test |-> terminal[i].test]
              /\ tests[terminal[i].test].outcome = "fail"
    /\ \A t \in TestIds :
          /\ tests[t].outcome = "pass" => OutputOf(t) = {}
          /\ Cardinality(OutputOf(t)) <= 1
          /\ (tests[t].outcome = "fail" /\ StatusOf(t) # {}) =>
                \E i \in StatusOf(t) : i + 1 \in OutputOf(t)
    \* the lock is held while a test prints
    /\ \A t \in TestIds : tpc[t] = "locked" => test_number.holder = t

\* Two failed tests and a passed one have all printed: two blocks of
\* output, each beneath its own status line.
C26_Witness ==
    /\ runState = "returned"
    /\ Len(tests) = 3
    /\ Cardinality({t \in TestIds : tests[t].outcome = "fail"}) = 2
    /\ Len(terminal) = 5
    /\ terminal[1].kind = "status" /\ terminal[2].kind = "output"
    /\ terminal[3].kind = "status" /\ terminal[3].test # terminal[1].test

\* C29: no closure of run_all panics once its child has been launched and
\* the lock is never poisoned, whatever the test's name length, k and N;
\* so when every child was launched every test's line and the summary are
\* printed.
C29_PaddingNeverUnderflows ==
    /\ \A t \in TestIds : tpc[t] = "panicked" => tests[t].outcome = "nospawn"
    /\ ~test_number.poisoned
    /\ \A i \in DOMAIN printed : printed[i].filling >= 0
    /\ (RunEnded /\ AllLaunched) =>
          /\ summary.printed
          /\ \A t \in TestIds : LinesOf(t) # {}

(***************************************************************************)
(* Further claims about enumeration, checked under EnumSpec.               *)
(***************************************************************************)

\* The listing child of the one GoogleTest executable ran and either exited
\* with a failure status or wrote no listing that parses.
ListingFailed ==
    /\ Len(enum_executables) = 1
    /\ TheExecutable.executable_type = "Gtest"
    /\ TheExecutable.child.spawned
    /\ ~TheExecutable.child.success \/ ~TheExecutable.child.parsed

\* The part of C24 that is about get_tests_from_gtest_executable.
C24_CurrentReports ==
    (ReturnedOne /\ ListingFailed) =>
        /\ enum_results[1].kind = "err"
        /\ catalog = <<>>
        /\ ~TheExecutable.child.success =>
              enum_results[1].error = "is not a gtest executable!"

\* C24: the enumeration of one GoogleTest executable whose listing child
\* exits non-zero, or whose output does not parse as a listing, returns an
\* error, never a list of tests; the exit status is looked at first. Stated
\* of get_tests_from_gtest_executable and of get_all_tests_from_executable.
C24_FailedListingIsError ==
    /\ C24_CurrentReports
    /\ (legacy_catalog # Pending /\ ListingFailed) => legacy_catalog.kind = "err"

(***************************************************************************)
(* Further claims about classification, checked under ClassifySpec.        *)
(***************************************************************************)

\* What Elf::new makes of the candidate.
Opened == ElfNew(file)

\* C25: Elf::new produces no handle, but an error of the right kind, for a
\* file that cannot be read up to 64 bytes (IoError), for a file whose
\* first 4 bytes are not 0x7F 'E' 'L' 'F' (NotAnElf) and for a file whose
\* class byte is not 2 (Not64Bits); a handle that is produced has the
\* magic in its first 4 bytes and 2 as its class byte.
C25_ElfNewRejects ==
    Classified =>
        /\ (~file.openable \/ file.header_len < 64) => Opened = Err("IoError")
        /\ (file.openable /\ file.header_len >= 64 /\ ~file.magic_ok)
              => Opened = Err("NotAnElf")
        /\ (file.openable /\ file.header_len >= 64 /\ file.magic_ok
            /\ file.ei_class # 2) => Opened = Err("Not64Bits")
        /\ Opened.kind = "ok" =>
              /\ Len(Opened.value) = 64
              /\ <<Opened.value[1], Opened.value[2], Opened.value[3], Opened.value[4]>>
                    = <<127, 69, 76, 70>>
              /\ Opened.value[5] = 2
        \* the classifier passes the error on and goes on with a handle
        /\ Opened.kind = "err" => result = Bail(Opened.error)
        /\ Opened.kind = "ok" => result.kind \in {"some", "none", "panic", "err"}
                                 /\ (result.kind = "err" =>
                                       result.error \in {"IoError", "InvalidElf"})

\* A big-endian file with the magic and the 32-bit class was rejected as
\* not 64 bits.
C25_Witness ==
    /\ Classified
    /\ file.openable /\ file.header_len = 64 /\ file.magic_ok
    /\ file.ei_class = 1 /\ file.ei_data = 2
    /\ Opened = Err("Not64Bits")
    /\ result = Bail("Not64Bits")

\* The section headers the classifier reads are all in the file, and none of
\* them has the symbol table type.
NoSymbolTable(f) ==
    /\ f.e_shnum <= Len(f.sections)
    /\ \A i \in 1..f.e_shnum : f.sections[i].type # 2

\* C27: a valid 64-bit binary whose file type is neither 2 (executable) nor
\* 3 (shared object) is classified "none", no error, whatever its section
\* header table, which is not read: also when the file holds fewer section
\* headers than its header says; and so is an executable or shared object
\* none of whose section headers has the symbol table type.
C27_NoneWithoutError ==
    (Classified /\ Valid64(file)) =>
        /\ file.e_type \notin {2, 3} => result = OkNone
        /\ (file.e_type \in {2, 3} /\ NoSymbolTable(file)) => result = OkNone

\* A relocatable file (type 1) whose header announces more section headers
\* than the file holds: "none", not the error reading them would give.
C27_Witness ==
    /\ Classified /\ Valid64(file)
    /\ file.e_type = 1
    /\ file.e_shnum > Len(file.sections)
    /\ result = OkNone

\* The number that 2 or 4 bytes of a block stand for, counted from the
\* offset o, in each byte order.
LittleEndian2(b, o) == b[o + 1] + 256 * b[o + 2]

BigEndian2(b, o) == 256 * b[o + 1] + b[o + 2]

LittleEndian4(b, o) ==
    b[o + 1] + 256 * b[o + 2] + 65536 * b[o + 3] + 16777216 * b[o + 4]

\* C28: the accessors of the file header (e_type at 0x10, e_shnum at 0x3C)
\* decode little-endian when the byte at offset 5 is 1 and big-endian
\* otherwise, so a header written in the order its flag says is read back
\* as written; the accessors of a section header (sh_type at 0x04, sh_link
\* at 0x28) decode little-endian whatever that flag, so the section headers
\* of a big-endian file are read byte-swapped.
C28_HeaderByFlagSectionsLittleEndian ==
    (Classified /\ file.header_len = 64) =>
        LET h == HeaderBytes(file)
        IN  /\ e_type(h) = IF h[6] = 1 THEN LittleEndian2(h, 16) ELSE BigEndian2(h, 16)
            /\ e_shnum(h) = IF h[6] = 1 THEN LittleEndian2(h, 60) ELSE BigEndian2(h, 60)
            /\ e_type(h) = file.e_type
            /\ e_shnum(h) = file.e_shnum
            /\ \A i \in DOMAIN file.sections :
                  LET d == SectionHeaderBytes(file, file.sections[i])
                  IN  /\ sh_type(d) = LittleEndian4(d, 4)
                      /\ sh_link(d) = LittleEndian4(d, 40)
                      /\ file.ei_data # 1 =>
                            sh_type(d) = 16777216 * file.sections[i].type

\* A big-endian shared object with a symbol table among its section
\* headers: the header fields are read as written, the symbol table's type
\* is not, and the file is classified "none".
C28_Witness ==
    /\ Classified /\ Valid64(file)
    /\ file.ei_data = 2 /\ file.e_type = 3
    /\ file.e_shnum = Len(file.sections)
    /\ \E i \in DOMAIN file.sections : file.sections[i].type = 2
    /\ e_type(HeaderBytes(file)) = 3
    /\ result = OkNone

\* The cells of the string table from the offset of symbol i up to the
\* first NUL after it; the symbol has a name when the offset lies in the
\* table and such a NUL exists.
Terminated(f, i) ==
    /\ f.symbols[i] < Len(f.strings)
    /\ \E n \in (f.symbols[i] + 1)..Len(f.strings) : f.strings[n] = "0"

Marked(f, i, word) ==
    /\ Terminated(f, i)
    /\ \E n \in (f.symbols[i] + 1)..Len(f.strings) :
          /\ f.strings[n] = word
          /\ \A m \in (f.symbols[i] + 1)..n : f.strings[m] # "0"

\* The symbols whose name carries one of the two markers.
MarkedSymbols(f) ==
    {i \in DOMAIN f.symbols : Marked(f, i, "G") \/ Marked(f, i, "C")}

\* C30: with both detections enabled, a valid binary is classified by the
\* first symbol of its symbol table whose name contains a marker:
\* GoogleTest-family when that name contains InitGoogleTest, else
\* Catch2-family; a symbol whose name offset lies outside the string table
\* or whose name has no NUL terminator counts for nothing and causes no
\* error; without any marked symbol the binary is classified "none".
C30_FirstMarkedSymbolDecides ==
    (Classified /\ ValidBinary(file) /\ is_gtest_enabled /\ is_catch2_enabled) =>
        /\ result.kind # "err"
        /\ MarkedSymbols(file) = {} => result = OkNone
        /\ MarkedSymbols(file) # {} =>
              LET first == CHOOSE i \in MarkedSymbols(file) :
                               \A j \in MarkedSymbols(file) : i <= j
              IN  Decided(IF Marked(file, first, "G") THEN "Gtest" ELSE "Catch2")

\* The first symbol's name starts with InitGoogleTest but has no NUL
\* terminator, the second symbol is named Catch2: Catch2-family.
C30_Witness ==
    /\ Classified /\ ValidBinary(file) /\ is_gtest_enabled /\ is_catch2_enabled
    /\ Len(file.symbols) = 2
    /\ file.symbols[1] < Len(file.strings) /\ ~Terminated(file, 1)
    /\ file.strings[file.symbols[1] + 1] = "G"
    /\ Marked(file, 2, "C") /\ ~Marked(file, 2, "G")
    /\ result = OkSome("Catch2")

====
